---- MODULE Spec2Model ----
(***************************************************************************)
(* A model of the TCAN4550 SPI CAN driver (src/tcan4550.c): the software   *)
(* TX staging queue, the transmit worker, the threaded interrupt handler,  *)
(* the open / close / restart paths, the SPI access layer and the frame    *)
(* codec.                                                                  *)
(*                                                                         *)
(* 32-bit words that can have bit 31 set (message words, SPI payloads) are *)
(* kept as pairs <<hi16, lo16>> so that no value leaves TLC's integers;    *)
(* register values whose used bits are below bit 31 are plain integers.    *)
(***************************************************************************)
EXTENDS Integers, Sequences, FiniteSets, TLC

(***************************************************************************)
(* Program constants                                                       *)
(***************************************************************************)
MODES_OF_OPERATION == 2048
INTERRUPT_FLAGS == 2080
INTERRUPT_ENABLE == 2096
STATUS == 12
SPI_MASK == 16
TEST == 4112
CCCR == 4120
NBTP == 4124
IR == 4176
IE == 4180
ILE == 4188
RXF0C == 4256
RXF0S == 4260
RXF0A == 4264
RXESC == 4284
TXBC == 4288
TXQFS == 4292
TXESC == 4296
TXBAR == 4304

RF0N == 1
TC == 512
TFE == 2048
EP == 8388608
EW == 16777216
BO == 33554432

INIT == 1
CCE == 2
CSR == 16
MODESEL_1 == 64
MODESEL_2 == 128

RX_SLOT_SIZE == 16
TX_SLOT_SIZE == 16
TX_MSG_BOXES == 32
TX_FIFO_START_ADDRESS == 0
RX_MSG_BOXES == 32
RX_FIFO_START_ADDRESS == 512
MRAM_BASE == 32768
MRAM_SIZE_WORDS == 512

MAX_BURST_TX_MESSAGES == 8
MAX_BURST_RX_MESSAGES == 8
TX_BUFFER_SIZE == 16 + 1

(***************************************************************************)
(* 32-bit unsigned arithmetic                                              *)
(***************************************************************************)
\* a 32-bit word as <<bits 31..16, bits 15..0>>
U32(v) == <<(v \div 65536) % 65536, v % 65536>>

\* a + b in uint32_t (wraps modulo 2^32)
U32Add(a, b) ==
    LET lo == a[2] + b[2]
        hi == a[1] + b[1] + (lo \div 65536)
    IN  <<hi % 65536, lo % 65536>>

\* (b << s) in uint32_t for a value b below 2^16
U32Shl(b, s) ==
    IF s >= 16 THEN <<(b * 2^(s - 16)) % 65536, 0>>
    ELSE <<(b * 2^s) \div 65536, (b * 2^s) % 65536>>

\* (w >> (8*k)) & 0xFF for k in 0..3
U32Byte(w, k) ==
    CASE k = 0 -> w[2] % 256
      [] k = 1 -> w[2] \div 256
      [] k = 2 -> w[1] % 256
      [] k = 3 -> w[1] \div 256

\* bit k (0..31) of a 32-bit word
U32Bit(w, k) == IF k >= 16 THEN (w[1] \div 2^(k - 16)) % 2 ELSE (w[2] \div 2^k) % 2

\* v & mask # 0 for a one-bit mask and an integer v
HasBit(v, mask) == (v \div mask) % 2 = 1

(***************************************************************************)
(* Frames and the message codec                                            *)
(***************************************************************************)
\* can_id flag bits (upper half of the 32-bit can_id)
CAN_EFF_FLAG_HI == 32768
CAN_RTR_FLAG_HI == 16384

\* frame->can_id & CAN_EFF_MASK (29 bits)
CanEffId(can_id) == <<can_id[1] % 8192, can_id[2]>>

\* frame->can_id & CAN_SFF_MASK (11 bits), an integer
CanSffId(can_id) == can_id[2] % 2048

\* convert a can_frame to the four words of a TCAN4550 message
tcan4550_composeMessage(frame) ==
    LET extended == (frame.can_id[1] \div CAN_EFF_FLAG_HI) % 2
        rtr == (frame.can_id[1] \div CAN_RTR_FLAG_HI) % 2
        len == IF frame.len > 8 THEN 8 ELSE frame.len
        w0 == IF extended = 1 THEN CanEffId(frame.can_id)
              ELSE U32Shl(CanSffId(frame.can_id), 18)
        d == frame.data
    IN  << U32Add(w0, U32Add(U32Shl(rtr, 29), U32Shl(extended, 30))),
           U32Shl(len, 16),
           U32Add(U32Add(U32(d[1]), U32Shl(d[2], 8)),
                  U32Add(U32Shl(d[3], 16), U32Shl(d[4], 24))),
           U32Add(U32Add(U32(d[5]), U32Shl(d[6], 8)),
                  U32Add(U32Shl(d[7], 16), U32Shl(d[8], 24))) >>

\* the per-message conversion of tcan4550_recMsgs: four words to a can_frame
recMsgs_decode(data) ==
    [ len    |-> data[2][1] % 128,
      can_id |-> IF U32Bit(data[1], 30) = 1
                 THEN <<(data[1][1] % 8192) + CAN_EFF_FLAG_HI, data[1][2]>>
                 ELSE <<0, (data[1][1] \div 4) % 2048>>,
      data   |-> << U32Byte(data[3], 0), U32Byte(data[3], 1),
                    U32Byte(data[3], 2), U32Byte(data[3], 3),
                    U32Byte(data[4], 0), U32Byte(data[4], 1),
                    U32Byte(data[4], 2), U32Byte(data[4], 3) >> ]


(***************************************************************************)
(* Model bounds                                                            *)
(***************************************************************************)
\* frames the network stack submits in a run of Spec
MaxXmit == 1
\* frames the network stack submits in a run of SpecFill
MaxFill == 18
\* interrupt passes in a run of Spec
MaxIrq == 2
\* interrupt passes in a run of SpecFill
FillIrq == 1
\* frames submitted and interrupt passes in a run of SpecPass
PassXmit == 2
PassIrq == 1
\* restarts (tcan4550_set_mode) in a run
MaxRestart == 1
\* tcan_open calls in a run
MaxOpen == 1
\* words of message RAM cleared by the modelled tcan4550_configure_mram loop
MramWordsModelled == 1

(***************************************************************************)
(* State                                                                   *)
(***************************************************************************)
VARIABLES
    tx_head,         \* priv->tx_head
    tx_tail,         \* priv->tx_tail
    tx_skb_buf,      \* priv->tx_skb_buf[TX_BUFFER_SIZE]; 0 is a NULL slot
    can_state,       \* priv->can.state
    queue_stopped,   \* the netif queue of the device is stopped
    work_pending,    \* priv->tx_work is queued on priv->wq
    irq_registered,  \* the threaded irq handler is installed
    restart_armed,   \* can_bus_off() was called and no restart has run since
    tx_skb_lock,     \* holder of the spinlock tx_skb_lock, or "free"
    spi_lock,        \* holder of the mutex spi_lock, or "free"
    in_sync,         \* contexts inside spi_sync
    hw_ie,           \* the chip's IE register
    hw_mode,         \* the chip's MODES_OF_OPERATION register (mode-select bits)
    xmit,            \* the submission context (tcan_start_xmit)
    wk,              \* the transmit worker (tcan4550_tx_work_handler)
    irq,             \* the interrupt thread (tcan4450_handleInterrupts)
    ctl,             \* the control path (tcan_open, tcan_close, tcan4550_set_mode)
    accepted,        \* history: frames tcan_start_xmit stored, in order
    sent,            \* history: frames passed to spi_write_msgs, in order
    staged,          \* history: frames stored and not yet removed or discarded
    next_skb,        \* the next frame the network stack submits
    used,            \* how many interrupt passes, restarts and opens have run
    codec,           \* the codec harness: a frame, its message, the decoded frame
    fifo,            \* the pass harness: which register is driven
    xfer,            \* the framing harness: one call of an SPI helper
    hw_tx            \* the chip's transmit side: frames sent, TX-fifo-empty raised

vars == << tx_head, tx_tail, tx_skb_buf, can_state, queue_stopped, work_pending,
           irq_registered, restart_armed, tx_skb_lock, spi_lock, in_sync,
           hw_ie, hw_mode, xmit, wk, irq, ctl, accepted, sent, staged,
           next_skb, used, codec, fifo, xfer, hw_tx >>

qvars == << tx_head, tx_tail, tx_skb_buf >>
spivars == << spi_lock, in_sync >>
hwvars == << hw_ie, hw_mode >>
histvars == << accepted, sent, staged >>
harnessvars == << codec, fifo, xfer, hw_tx >>

xmitIdle == [pc |-> "idle", tmpHead |-> 0, skb |-> 0, ret |-> "NONE"]

wkIdle == [pc |-> "idle", writeIndex |-> 0, msgsToTransmit |-> 0, msgs |-> 0,
           requestMask |-> <<0, 0>>, baseAddress |-> 0, burst |-> <<>>,
           writeOk |-> TRUE]

irqIdle == [pc |-> "idle", ir |-> 0, getIndex |-> 0, msgsToGet |-> 0,
            baseAddress |-> 0, rxBuffer |-> <<>>, readOk |-> TRUE, ret |-> "NONE",
            log |-> <<>>, frames |-> <<>>]

ctlClosed == [pc |-> "closed", op |-> "none", i |-> 0, val |-> 0]

codecIdle == [pc |-> "off"]
xferOff == [pc |-> "off"]
hwtxIdle == [done |-> 0, raised |-> FALSE, raisedAt |-> 0]

\* the state after tcan_probe: alloc_candev() zeroes the private data
InitDriver ==
    /\ tx_head = 0
    /\ tx_tail = 0
    /\ tx_skb_buf = [i \in 0..(TX_BUFFER_SIZE - 1) |-> 0]
    /\ can_state = "STOPPED"
    /\ queue_stopped = TRUE
    /\ work_pending = FALSE
    /\ irq_registered = FALSE
    /\ restart_armed = FALSE
    /\ tx_skb_lock = "free"
    /\ spi_lock = "free"
    /\ in_sync = {}
    /\ hw_ie = 0
    /\ hw_mode = MODESEL_1
    /\ xmit = xmitIdle
    /\ wk = wkIdle
    /\ irq = irqIdle
    /\ ctl = ctlClosed
    /\ accepted = <<>>
    /\ sent = <<>>
    /\ staged = <<>>
    /\ next_skb = 1
    /\ used = [irq |-> 0, restart |-> 0, open |-> 0]

\* the state tcan_open leaves when every transfer of tcan4550_init succeeded
\* and request_threaded_irq() returned 0
Opened ==
    /\ tx_head = 0
    /\ tx_tail = 0
    /\ tx_skb_buf = [i \in 0..(TX_BUFFER_SIZE - 1) |-> 0]
    /\ can_state = "ERROR_ACTIVE"
    /\ queue_stopped = FALSE
    /\ work_pending = FALSE
    /\ irq_registered = TRUE
    /\ restart_armed = FALSE
    /\ tx_skb_lock = "free"
    /\ spi_lock = "free"
    /\ in_sync = {}
    /\ hw_ie = RF0N + TFE + BO + EW + EP
    /\ hw_mode = MODESEL_2
    /\ xmit = xmitIdle
    /\ wk = wkIdle
    /\ irq = irqIdle
    /\ ctl = [pc |-> "up", op |-> "none", i |-> 0, val |-> 0]
    /\ accepted = <<>>
    /\ sent = <<>>
    /\ staged = <<>>
    /\ next_skb = 1
    /\ used = [irq |-> 0, restart |-> 0, open |-> 1]

(***************************************************************************)
(* SPI access layer                                                        *)
(***************************************************************************)
\* spi_transfer without mutex_lock(&spi_lock)
spi_transfer_noMutex(ctx) ==
    /\ spi_lock' = ctx
    /\ in_sync' = in_sync \cup {ctx}

\* spi_transfer up to the start of spi_sync: mutex_lock(&spi_lock)
spi_transfer_lock(ctx) ==
    /\ spi_lock = "free"
    /\ spi_lock' = ctx
    /\ in_sync' = in_sync \cup {ctx}

\* spi_transfer from the end of spi_sync: mutex_unlock(&spi_lock)
spi_transfer_unlock(ctx) ==
    /\ spi_lock' = "free"
    /\ in_sync' = in_sync \ {ctx}

(***************************************************************************)
(* Hardware FIFO windows                                                   *)
(***************************************************************************)
\* the TX burst window the worker derives from a TXQFS value
TxWindow(txqfs) ==
    LET freeBuffers == txqfs % 64
        writeIndex == (txqfs \div 65536) % 32
        capped == IF freeBuffers > MAX_BURST_TX_MESSAGES
                  THEN MAX_BURST_TX_MESSAGES ELSE freeBuffers
    IN  [ writeIndex |-> writeIndex,
          baseAddress |-> MRAM_BASE + TX_FIFO_START_ADDRESS + (writeIndex * TX_SLOT_SIZE),
          msgsToTransmit |-> IF (writeIndex + capped) > TX_MSG_BOXES
                             THEN TX_MSG_BOXES - writeIndex ELSE capped ]

\* a - b in uint32_t, for integers a, b in 0..65535
U32Sub(a, b) == IF a >= b THEN <<0, a - b>> ELSE <<65535, 65536 + a - b>>

\* a > w for an integer a in 0..65535 and a 32-bit word w
U32Gt(a, w) == w[1] = 0 /\ a > w[2]

\* the RX burst window tcan4550_recMsgs derives from an RXF0S value
RxWindow(rxf0s) ==
    LET fillLevel == rxf0s % 128
        getIndex == (rxf0s \div 256) % 64
        room == U32Sub(RX_MSG_BOXES, getIndex)
        wrapped == IF U32Gt(fillLevel, room) THEN room[2] ELSE fillLevel
    IN  [ fillLevel |-> fillLevel,
          getIndex |-> getIndex,
          baseAddress |-> MRAM_BASE + RX_FIFO_START_ADDRESS + (getIndex * RX_SLOT_SIZE),
          msgsToGet |-> IF fillLevel = 0 THEN 0
                        ELSE IF wrapped > MAX_BURST_RX_MESSAGES
                             THEN MAX_BURST_RX_MESSAGES ELSE wrapped ]

\* NextHead with the wrap test one slot late
NextHead_lateWrap(h) == IF h + 1 > TX_BUFFER_SIZE THEN 0 ELSE h + 1

(***************************************************************************)
(* tcan_start_xmit                                                         *)
(***************************************************************************)
\* tmpHead = tx_head + 1, wrapped at TX_BUFFER_SIZE
NextHead(h) == IF h + 1 >= TX_BUFFER_SIZE THEN 0 ELSE h + 1

\* the network stack calls ndo_start_xmit only on an interface that is up:
\* after ndo_open has returned and before ndo_stop is called
NetifRunning == ctl.pc = "up" \/ ctl.op = "restart"

\* can_dropped_invalid_skb(): an invalid frame is dropped and reported as sent
xmit_drop ==
    /\ xmit.pc = "idle"
    /\ NetifRunning
    /\ ~queue_stopped
    /\ xmit' = [xmit EXCEPT !.ret = "OK"]
    /\ UNCHANGED << qvars, can_state, queue_stopped, work_pending, irq_registered,
                    restart_armed, tx_skb_lock, spivars, hwvars, wk, irq, ctl,
                    histvars, next_skb, used, harnessvars >>

\* xmit_lock that also takes the SPI mutex, as a submission path writing to
\* the chip itself would
xmit_lock_bus(limit) ==
    /\ xmit.pc = "idle"
    /\ NetifRunning
    /\ ~queue_stopped
    /\ next_skb <= limit
    /\ tx_skb_lock = "free"
    /\ tx_skb_lock' = "xmit"
    /\ spi_lock = "free"
    /\ spi_lock' = "xmit"
    /\ xmit' = [pc |-> "locked", tmpHead |-> NextHead(tx_head), skb |-> next_skb,
                ret |-> "NONE"]
    /\ UNCHANGED << qvars, can_state, queue_stopped, work_pending, irq_registered,
                    restart_armed, in_sync, hwvars, wk, irq, ctl,
                    histvars, next_skb, used, harnessvars >>

\* spin_lock_irqsave(); tmpHead = tx_head + 1 (wrapped)
xmit_lock(limit) ==
    /\ xmit.pc = "idle"
    /\ NetifRunning
    /\ ~queue_stopped
    /\ next_skb <= limit
    /\ tx_skb_lock = "free"
    /\ tx_skb_lock' = "xmit"
    /\ xmit' = [pc |-> "locked", tmpHead |-> NextHead(tx_head), skb |-> next_skb,
                ret |-> "NONE"]
    /\ UNCHANGED << qvars, can_state, queue_stopped, work_pending, irq_registered,
                    restart_armed, spivars, hwvars, wk, irq, ctl,
                    histvars, next_skb, used, harnessvars >>

\* a full-queue path that stops the queue and does not queue the worker
xmit_busy_noWork ==
    /\ xmit.pc = "locked"
    /\ xmit.tmpHead = tx_tail
    /\ queue_stopped' = TRUE
    /\ tx_skb_lock' = "free"
    /\ xmit' = [xmitIdle EXCEPT !.ret = "BUSY"]
    /\ UNCHANGED << qvars, can_state, work_pending, irq_registered, restart_armed,
                    spivars, hwvars, wk, irq, ctl, histvars, next_skb, used,
                    harnessvars >>

\* the queue is full: netif_stop_queue(), unlock, queue_work(), NETDEV_TX_BUSY
xmit_busy ==
    /\ xmit.pc = "locked"
    /\ xmit.tmpHead = tx_tail
    /\ queue_stopped' = TRUE
    /\ tx_skb_lock' = "free"
    /\ work_pending' = TRUE
    /\ xmit' = [xmitIdle EXCEPT !.ret = "BUSY"]
    /\ UNCHANGED << qvars, can_state, irq_registered, restart_armed, spivars,
                    hwvars, wk, irq, ctl, histvars, next_skb, used, harnessvars >>

\* room: store the frame at tx_head, advance tx_head, unlock, queue_work(),
\* NETDEV_TX_OK
xmit_store ==
    /\ xmit.pc = "locked"
    /\ xmit.tmpHead # tx_tail
    /\ tx_skb_buf' = [tx_skb_buf EXCEPT ![tx_head] = xmit.skb]
    /\ tx_head' = xmit.tmpHead
    /\ tx_skb_lock' = "free"
    /\ work_pending' = TRUE
    /\ xmit' = [xmitIdle EXCEPT !.ret = "OK"]
    /\ accepted' = Append(accepted, xmit.skb)
    /\ staged' = Append(staged, xmit.skb)
    /\ next_skb' = next_skb + 1
    /\ UNCHANGED << tx_tail, can_state, queue_stopped, irq_registered,
                    restart_armed, spivars, hwvars, wk, irq, ctl, sent, used,
                    harnessvars >>

tcan_start_xmit(limit) ==
    \/ xmit_drop
    \/ xmit_lock(limit)
    \/ xmit_busy
    \/ xmit_store


(***************************************************************************)
(* tcan4550_tx_work_handler                                                *)
(***************************************************************************)
\* the workqueue starts the handler: spi_read32(TXQFS) takes the bus
tx_work_start ==
    /\ wk.pc = "idle"
    /\ work_pending
    /\ spi_transfer_lock("worker")
    /\ work_pending' = FALSE
    /\ wk' = [wk EXCEPT !.pc = "txqfs"]
    /\ UNCHANGED << qvars, can_state, queue_stopped, irq_registered, restart_armed,
                    tx_skb_lock, hwvars, xmit, irq, ctl, histvars, next_skb, used,
                    harnessvars >>

\* spi_read32(TXQFS) returns a value of Values; the burst window is computed
tx_work_txqfs(Values) ==
    /\ wk.pc = "txqfs"
    /\ \E txqfs \in Values :
         LET win == TxWindow(txqfs)
         IN  wk' = [wk EXCEPT !.pc = "lock",
                              !.writeIndex = win.writeIndex,
                              !.baseAddress = win.baseAddress,
                              !.msgsToTransmit = win.msgsToTransmit]
    /\ spi_transfer_unlock("worker")
    /\ UNCHANGED << qvars, can_state, queue_stopped, work_pending, irq_registered,
                    restart_armed, tx_skb_lock, hwvars, xmit, irq, ctl, histvars,
                    next_skb, used, harnessvars >>

\* spin_lock_irqsave(&tx_skb_lock)
tx_work_lock ==
    /\ wk.pc = "lock"
    /\ tx_skb_lock = "free"
    /\ tx_skb_lock' = "worker"
    /\ wk' = [wk EXCEPT !.pc = "loop"]
    /\ UNCHANGED << qvars, can_state, queue_stopped, work_pending, irq_registered,
                    restart_armed, spivars, hwvars, xmit, irq, ctl, histvars,
                    next_skb, used, harnessvars >>

\* NextTail with the wrap one slot early
NextTail_earlyWrap(t) == IF t + 1 >= TX_BUFFER_SIZE - 1 THEN 0 ELSE t + 1

\* tx_tail++, wrapped at TX_BUFFER_SIZE
NextTail(t) == IF t + 1 >= TX_BUFFER_SIZE THEN 0 ELSE t + 1

\* an iteration that sets requestMask to the bit of the slot instead of
\* adding the bit to it
tx_work_iter_lastBit ==
    /\ wk.pc = "loop"
    /\ tx_head # tx_tail
    /\ wk.msgs < wk.msgsToTransmit
    /\ wk' = [wk EXCEPT !.burst = Append(@, tx_skb_buf[tx_tail]),
                        !.requestMask = U32Shl(1, wk.writeIndex),
                        !.msgs = @ + 1,
                        !.writeIndex = @ + 1]
    /\ tx_tail' = NextTail(tx_tail)
    /\ staged' = IF staged # <<>> /\ Head(staged) = tx_skb_buf[tx_tail]
                 THEN Tail(staged) ELSE staged
    /\ UNCHANGED << tx_head, tx_skb_buf, can_state, queue_stopped, work_pending,
                    irq_registered, restart_armed, tx_skb_lock, spivars, hwvars,
                    xmit, irq, ctl, accepted, sent, next_skb, used, harnessvars >>

\* one iteration of the while loop: the frame at tx_tail goes into txBuffer
tx_work_iter ==
    /\ wk.pc = "loop"
    /\ tx_head # tx_tail
    /\ wk.msgs < wk.msgsToTransmit
    /\ wk' = [wk EXCEPT !.burst = Append(@, tx_skb_buf[tx_tail]),
                        !.requestMask = U32Add(@, U32Shl(1, wk.writeIndex)),
                        !.msgs = @ + 1,
                        !.writeIndex = @ + 1]
    /\ tx_tail' = NextTail(tx_tail)
    /\ staged' = IF staged # <<>> /\ Head(staged) = tx_skb_buf[tx_tail]
                 THEN Tail(staged) ELSE staged
    /\ UNCHANGED << tx_head, tx_skb_buf, can_state, queue_stopped, work_pending,
                    irq_registered, restart_armed, tx_skb_lock, spivars, hwvars,
                    xmit, irq, ctl, accepted, sent, next_skb, used, harnessvars >>

\* the loop ends: spin_unlock_irqrestore(); with nothing taken the pass is over
tx_work_unlock ==
    /\ wk.pc = "loop"
    /\ ~(tx_head # tx_tail /\ wk.msgs < wk.msgsToTransmit)
    /\ tx_skb_lock' = "free"
    /\ wk' = IF wk.msgs > 0 THEN [wk EXCEPT !.pc = "write"] ELSE wkIdle
    /\ UNCHANGED << qvars, can_state, queue_stopped, work_pending, irq_registered,
                    restart_armed, spivars, hwvars, xmit, irq, ctl, histvars,
                    next_skb, used, harnessvars >>

\* spi_write_msgs(baseAddress, msgs, txBuffer) takes the bus
tx_work_write ==
    /\ wk.pc = "write"
    /\ spi_transfer_lock("worker")
    /\ wk' = [wk EXCEPT !.pc = "writing"]
    /\ sent' = sent \o wk.burst
    /\ UNCHANGED << qvars, can_state, queue_stopped, work_pending, irq_registered,
                    restart_armed, tx_skb_lock, hwvars, xmit, irq, ctl, accepted,
                    staged, next_skb, used, harnessvars >>

\* spi_write_msgs returns, with 0 or with the error of a failed transfer
\* (its result is not looked at)
tx_work_written ==
    /\ wk.pc = "writing"
    /\ spi_transfer_unlock("worker")
    /\ \E ok \in BOOLEAN : wk' = [wk EXCEPT !.pc = "request", !.writeOk = ok]
    /\ UNCHANGED << qvars, can_state, queue_stopped, work_pending, irq_registered,
                    restart_armed, tx_skb_lock, hwvars, xmit, irq, ctl, histvars,
                    next_skb, used, harnessvars >>

\* spi_write32(TXBAR, requestMask) takes the bus
tx_work_request ==
    /\ wk.pc = "request"
    /\ spi_transfer_lock("worker")
    /\ wk' = [wk EXCEPT !.pc = "requesting"]
    /\ UNCHANGED << qvars, can_state, queue_stopped, work_pending, irq_registered,
                    restart_armed, tx_skb_lock, hwvars, xmit, irq, ctl, histvars,
                    next_skb, used, harnessvars >>

\* spi_write32(TXBAR) returns; the handler returns
tx_work_requested ==
    /\ wk.pc = "requesting"
    /\ spi_transfer_unlock("worker")
    /\ wk' = wkIdle
    /\ UNCHANGED << qvars, can_state, queue_stopped, work_pending, irq_registered,
                    restart_armed, tx_skb_lock, hwvars, xmit, irq, ctl, histvars,
                    next_skb, used, harnessvars >>

tcan4550_tx_work_handler(Values) ==
    \/ tx_work_start
    \/ tx_work_txqfs(Values)
    \/ tx_work_lock
    \/ tx_work_iter
    \/ tx_work_unlock
    \/ tx_work_write
    \/ tx_work_written
    \/ tx_work_request
    \/ tx_work_requested


(***************************************************************************)
(* tcan4550_init and the control path                                      *)
(***************************************************************************)
\* v | mask and v & ~mask for a one-bit mask
SetBit(v, mask) == IF HasBit(v, mask) THEN v ELSE v + mask
ClearBit(v, mask) == IF HasBit(v, mask) THEN v - mask ELSE v

\* the value tcan4550_setupInterrupts writes to IE
IE_MASK == RF0N + TFE + BO + EW + EP

\* tcan4550_set_standby_mode: read MODES_OF_OPERATION, write it back changed
StandbyProgram ==
    << [op |-> "rd", reg |-> MODES_OF_OPERATION, kind |-> "none"],
       [op |-> "wr", reg |-> MODES_OF_OPERATION, kind |-> "standby"] >>

\* tcan4550_set_normal_mode
NormalProgram ==
    << [op |-> "rd", reg |-> MODES_OF_OPERATION, kind |-> "none"],
       [op |-> "wr", reg |-> MODES_OF_OPERATION, kind |-> "normal"] >>

\* tcan4550_unlock, tcan4550_setBitRate
UnlockProgram ==
    << [op |-> "rd", reg |-> CCCR, kind |-> "none"],
       [op |-> "wr", reg |-> CCCR, kind |-> "unlock"],
       [op |-> "wr", reg |-> NBTP, kind |-> "bitrate"] >>

\* tcan4550_configure_mram: the clearing loop (its first MramWordsModelled
\* of MRAM_SIZE_WORDS words), then the FIFO and element-size registers
MramProgram ==
    [i \in 1..MramWordsModelled |->
        [op |-> "wr", reg |-> MRAM_BASE + ((i - 1) * 4), kind |-> "zero"]]
    \o << [op |-> "wr", reg |-> TXBC, kind |-> "txbc"],
          [op |-> "wr", reg |-> RXF0C, kind |-> "rxf0c"],
          [op |-> "wr", reg |-> TXESC, kind |-> "zero"],
          [op |-> "wr", reg |-> RXESC, kind |-> "zero"] >>

\* tcan4550_configureControlModes
ControlModesProgram ==
    << [op |-> "rd", reg |-> CCCR, kind |-> "none"],
       [op |-> "rd", reg |-> TEST, kind |-> "none"],
       [op |-> "wr", reg |-> CCCR, kind |-> "cccr"],
       [op |-> "wr", reg |-> TEST, kind |-> "test"] >>

\* tcan4550_setupInterrupts
InterruptsProgram ==
    << [op |-> "wr", reg |-> IE, kind |-> "ie"],
       [op |-> "wr", reg |-> ILE, kind |-> "one"],
       [op |-> "wr", reg |-> SPI_MASK, kind |-> "ones"],
       [op |-> "wr", reg |-> STATUS, kind |-> "ones"],
       [op |-> "wr", reg |-> INTERRUPT_FLAGS, kind |-> "ones"],
       [op |-> "wr", reg |-> INTERRUPT_ENABLE, kind |-> "zero"] >>

\* tcan4550_init: the SPI transactions it issues, in order
InitProgram ==
    StandbyProgram \o UnlockProgram \o MramProgram \o ControlModesProgram
    \o InterruptsProgram \o NormalProgram

Program(op) == IF op = "close" THEN StandbyProgram ELSE InitProgram

\* what spi_read32 hands back when the transfer failed: rxBuf was never written
GarbageModes == {0, MODESEL_1 + MODESEL_2}

\* a transaction of the control path takes the bus
ctl_spi_begin ==
    /\ ctl.pc = "spi"
    /\ spi_transfer_lock("ctl")
    /\ ctl' = [ctl EXCEPT !.pc = "spi_sync"]
    /\ UNCHANGED << qvars, can_state, queue_stopped, work_pending, irq_registered,
                    restart_armed, tx_skb_lock, hwvars, xmit, wk, irq, histvars,
                    next_skb, used, harnessvars >>

\* where the control path goes when its program is done
AfterProgram(op) ==
    CASE op = "open" -> [pc |-> "request_irq", op |-> "open", i |-> 0, val |-> 0]
      [] op = "restart" -> [pc |-> "start_queue", op |-> "restart", i |-> 0, val |-> 0]
      [] op = "close" -> ctlClosed

\* the transaction ends: a read leaves its value in val, a write that reached
\* the chip changes the register
ctl_spi_end ==
    /\ ctl.pc = "spi_sync"
    /\ spi_transfer_unlock("ctl")
    /\ \E ok \in BOOLEAN :
         LET step == Program(ctl.op)[ctl.i]
             last == ctl.i = Len(Program(ctl.op))
         IN  /\ \E v \in IF step.op = "rd" /\ step.reg = MODES_OF_OPERATION
                         THEN (IF ok THEN {hw_mode} ELSE GarbageModes)
                         ELSE {0} :
                   ctl' = IF last THEN AfterProgram(ctl.op)
                          ELSE [ctl EXCEPT !.pc = "spi", !.i = @ + 1,
                                           !.val = IF step.op = "rd" THEN v ELSE @]
             /\ hw_mode' = IF ok /\ step.kind = "standby"
                             THEN ClearBit(SetBit(ctl.val, MODESEL_1), MODESEL_2)
                           ELSE IF ok /\ step.kind = "normal"
                             THEN ClearBit(SetBit(ctl.val, MODESEL_2), MODESEL_1)
                           ELSE hw_mode
             /\ hw_ie' = IF ok /\ step.kind = "ie" THEN IE_MASK ELSE hw_ie
    /\ UNCHANGED << qvars, can_state, queue_stopped, work_pending, irq_registered,
                    restart_armed, tx_skb_lock, xmit, wk, irq, histvars, next_skb,
                    used, harnessvars >>

\* tcan_open: open_candev() succeeded, tcan4550_init starts
tcan_open_begin ==
    /\ ctl.pc = "closed"
    /\ used.open < MaxOpen
    /\ ctl' = [pc |-> "spi", op |-> "open", i |-> 1, val |-> 0]
    /\ used' = [used EXCEPT !.open = @ + 1]
    /\ UNCHANGED << qvars, can_state, queue_stopped, work_pending, irq_registered,
                    restart_armed, tx_skb_lock, spivars, hwvars, xmit, wk, irq,
                    histvars, next_skb, harnessvars >>

\* request_threaded_irq() succeeded
tcan_open_request_irq ==
    /\ ctl.pc = "request_irq"
    /\ irq_registered' = TRUE
    /\ ctl' = [ctl EXCEPT !.pc = "reset_head"]
    /\ UNCHANGED << qvars, can_state, queue_stopped, work_pending, restart_armed,
                    tx_skb_lock, spivars, hwvars, xmit, wk, irq, histvars, next_skb,
                    used, harnessvars >>

\* request_threaded_irq() failed: close_candev(), return err
tcan_open_irq_failed ==
    /\ ctl.pc = "request_irq"
    /\ ctl' = ctlClosed
    /\ UNCHANGED << qvars, can_state, queue_stopped, work_pending, irq_registered,
                    restart_armed, tx_skb_lock, spivars, hwvars, xmit, wk, irq,
                    histvars, next_skb, used, harnessvars >>

\* priv->tx_head = 0
tcan_open_reset_head ==
    /\ ctl.pc = "reset_head"
    /\ ctl.op = "open"
    /\ tx_head' = 0
    /\ accepted' = <<>>
    /\ sent' = <<>>
    /\ staged' = <<>>
    /\ ctl' = [ctl EXCEPT !.pc = "reset_tail"]
    /\ UNCHANGED << tx_tail, tx_skb_buf, can_state, queue_stopped, work_pending,
                    irq_registered, restart_armed, tx_skb_lock, spivars, hwvars,
                    xmit, wk, irq, next_skb, used, harnessvars >>

\* priv->tx_tail = 0
tcan_open_reset_tail ==
    /\ ctl.pc = "reset_tail"
    /\ ctl.op = "open"
    /\ tx_tail' = 0
    /\ ctl' = [ctl EXCEPT !.pc = "finish"]
    /\ UNCHANGED << tx_head, tx_skb_buf, can_state, queue_stopped, work_pending,
                    irq_registered, restart_armed, tx_skb_lock, spivars, hwvars,
                    xmit, wk, irq, histvars, next_skb, used, harnessvars >>

\* priv->can.state = CAN_STATE_ERROR_ACTIVE; netif_start_queue(); return 0
tcan_open_finish ==
    /\ ctl.pc = "finish"
    /\ can_state' = "ERROR_ACTIVE"
    /\ queue_stopped' = FALSE
    /\ ctl' = [pc |-> "up", op |-> "none", i |-> 0, val |-> 0]
    /\ UNCHANGED << qvars, work_pending, irq_registered, restart_armed, tx_skb_lock,
                    spivars, hwvars, xmit, wk, irq, histvars, next_skb, used,
                    harnessvars >>

tcan_open ==
    \/ tcan_open_begin
    \/ tcan_open_request_irq
    \/ tcan_open_irq_failed
    \/ tcan_open_reset_head
    \/ tcan_open_reset_tail
    \/ tcan_open_finish

\* tcan_close: netif_stop_queue(); state = STOPPED; close_candev()
tcan_close_begin ==
    /\ ctl.pc = "up"
    /\ queue_stopped' = TRUE
    /\ can_state' = "STOPPED"
    /\ restart_armed' = FALSE
    /\ ctl' = [pc |-> "free_irq", op |-> "close", i |-> 0, val |-> 0]
    /\ UNCHANGED << qvars, work_pending, irq_registered, tx_skb_lock, spivars,
                    hwvars, xmit, wk, irq, histvars, next_skb, used, harnessvars >>

\* free_irq(): waits for a running handler thread, then removes the handler;
\* tcan4550_set_standby_mode follows
tcan_close_free_irq ==
    /\ ctl.pc = "free_irq"
    /\ irq.pc = "idle"
    /\ irq_registered' = FALSE
    /\ ctl' = [pc |-> "spi", op |-> "close", i |-> 1, val |-> 0]
    /\ UNCHANGED << qvars, can_state, queue_stopped, work_pending, restart_armed,
                    tx_skb_lock, spivars, hwvars, xmit, wk, irq, histvars, next_skb,
                    used, harnessvars >>

tcan_close ==
    \/ tcan_close_begin
    \/ tcan_close_free_irq

\* tcan4550_set_mode(CAN_MODE_START), called by the CAN core to leave bus-off:
\* priv->tx_head = 0
set_mode_reset_head ==
    /\ ctl.pc = "up"
    /\ restart_armed
    /\ used.restart < MaxRestart
    /\ restart_armed' = FALSE
    /\ used' = [used EXCEPT !.restart = @ + 1]
    /\ tx_head' = 0
    /\ accepted' = <<>>
    /\ sent' = <<>>
    /\ staged' = <<>>
    /\ ctl' = [pc |-> "reset_tail", op |-> "restart", i |-> 0, val |-> 0]
    /\ UNCHANGED << tx_tail, tx_skb_buf, can_state, queue_stopped, work_pending,
                    irq_registered, tx_skb_lock, spivars, hwvars, xmit, wk, irq,
                    next_skb, harnessvars >>

\* priv->tx_tail = 0
set_mode_reset_tail ==
    /\ ctl.pc = "reset_tail"
    /\ ctl.op = "restart"
    /\ tx_tail' = 0
    /\ ctl' = [ctl EXCEPT !.pc = "set_active"]
    /\ UNCHANGED << tx_head, tx_skb_buf, can_state, queue_stopped, work_pending,
                    irq_registered, restart_armed, tx_skb_lock, spivars, hwvars,
                    xmit, wk, irq, histvars, next_skb, used, harnessvars >>

\* priv->can.state = CAN_STATE_ERROR_ACTIVE; tcan4550_init starts
set_mode_set_active ==
    /\ ctl.pc = "set_active"
    /\ can_state' = "ERROR_ACTIVE"
    /\ ctl' = [pc |-> "spi", op |-> "restart", i |-> 1, val |-> 0]
    /\ UNCHANGED << qvars, queue_stopped, work_pending, irq_registered,
                    restart_armed, tx_skb_lock, spivars, hwvars, xmit, wk, irq,
                    histvars, next_skb, used, harnessvars >>

\* netif_start_queue(); return 0
set_mode_start_queue ==
    /\ ctl.pc = "start_queue"
    /\ queue_stopped' = FALSE
    /\ ctl' = [pc |-> "up", op |-> "none", i |-> 0, val |-> 0]
    /\ UNCHANGED << qvars, can_state, work_pending, irq_registered, restart_armed,
                    tx_skb_lock, spivars, hwvars, xmit, wk, irq, histvars, next_skb,
                    used, harnessvars >>

tcan4550_set_mode ==
    \/ set_mode_reset_head
    \/ set_mode_reset_tail
    \/ set_mode_set_active
    \/ set_mode_start_queue

tcan4550_init ==
    \/ ctl_spi_begin
    \/ ctl_spi_end


(***************************************************************************)
(* tcan4450_handleInterrupts and tcan4550_recMsgs                          *)
(***************************************************************************)
\* one entry of the record of what an interrupt pass did
Ev(op, reg, val) == [op |-> op, reg |-> reg, val |-> val]

\* a handler whose tests are chained with "else": after the first bit it
\* finds set among TFE, BO, EW and EP it looks at no other
irq_tail_elseIf(rec) ==
    IF HasBit(rec.ir, TFE)
    THEN /\ queue_stopped' = FALSE
         /\ UNCHANGED << restart_armed, can_state >>
         /\ irq' = [rec EXCEPT !.pc = "ret", !.ret = "IRQ_HANDLED",
                               !.log = rec.log \o <<Ev("wake", 0, 0)>>]
    ELSE IF HasBit(rec.ir, BO)
    THEN /\ restart_armed' = TRUE
         /\ can_state' = "BUS_OFF"
         /\ UNCHANGED queue_stopped
         /\ irq' = [rec EXCEPT !.pc = "ie",
                               !.log = rec.log \o <<Ev("bus_off", 0, 0)>>]
    ELSE /\ UNCHANGED << restart_armed, queue_stopped >>
         /\ can_state' = IF HasBit(rec.ir, EW) THEN "ERROR_WARNING"
                         ELSE IF HasBit(rec.ir, EP) THEN "ERROR_PASSIVE"
                         ELSE can_state
         /\ irq' = [rec EXCEPT !.pc = "ret", !.ret = "IRQ_HANDLED",
                      !.log = rec.log
                        \o (IF HasBit(rec.ir, EW) THEN <<Ev("warning", 0, 0)>>
                            ELSE IF HasBit(rec.ir, EP) THEN <<Ev("passive", 0, 0)>>
                            ELSE <<>>)]

\* the handler from "if (ir & TFE)" to its next SPI transfer or its return:
\* the queue is woken; on bus-off the CAN core is told, the state is set and
\* the IE write comes next; otherwise the warning and passive bits are applied
irq_tail(rec) ==
    LET woken == IF HasBit(rec.ir, TFE) THEN <<Ev("wake", 0, 0)>> ELSE <<>>
    IN  /\ queue_stopped' = IF HasBit(rec.ir, TFE) THEN FALSE ELSE queue_stopped
        /\ IF HasBit(rec.ir, BO)
           THEN /\ restart_armed' = TRUE
                /\ can_state' = "BUS_OFF"
                /\ irq' = [rec EXCEPT !.pc = "ie",
                             !.log = rec.log \o woken \o <<Ev("bus_off", 0, 0)>>]
           ELSE /\ UNCHANGED restart_armed
                /\ can_state' = IF HasBit(rec.ir, EP) THEN "ERROR_PASSIVE"
                                ELSE IF HasBit(rec.ir, EW) THEN "ERROR_WARNING"
                                ELSE can_state
                /\ irq' = [rec EXCEPT !.pc = "ret", !.ret = "IRQ_HANDLED",
                             !.log = rec.log \o woken
                               \o (IF HasBit(rec.ir, EW)
                                   THEN <<Ev("warning", 0, 0)>> ELSE <<>>)
                               \o (IF HasBit(rec.ir, EP)
                                   THEN <<Ev("passive", 0, 0)>> ELSE <<>>)]

\* the irq thread runs the handler: spi_read32(IR) takes the bus
irq_begin(limit) ==
    /\ irq.pc = "idle"
    /\ irq_registered
    /\ hw_ie # 0
    /\ used.irq < limit
    /\ spi_transfer_lock("irq")
    /\ used' = [used EXCEPT !.irq = @ + 1]
    /\ irq' = [irq EXCEPT !.pc = "ir"]
    /\ UNCHANGED << qvars, can_state, queue_stopped, work_pending, irq_registered,
                    restart_armed, tx_skb_lock, hwvars, xmit, wk, ctl, histvars,
                    next_skb, harnessvars >>

\* spi_read32(IR) returns a value of Values
irq_ir_read(Values) ==
    /\ irq.pc = "ir"
    /\ spi_transfer_unlock("irq")
    /\ \E v \in Values :
         irq' = [irq EXCEPT !.pc = "ack", !.ir = v,
                            !.log = Append(@, Ev("rd", IR, v))]
    /\ UNCHANGED << qvars, can_state, queue_stopped, work_pending, irq_registered,
                    restart_armed, tx_skb_lock, hwvars, xmit, wk, ctl, histvars,
                    next_skb, used, harnessvars >>

\* spi_write32(IR, ir) takes the bus
irq_ir_ack ==
    /\ irq.pc = "ack"
    /\ spi_transfer_lock("irq")
    /\ irq' = [irq EXCEPT !.pc = "acking"]
    /\ UNCHANGED << qvars, can_state, queue_stopped, work_pending, irq_registered,
                    restart_armed, tx_skb_lock, hwvars, xmit, wk, ctl, histvars,
                    next_skb, used, harnessvars >>

\* an acknowledge that clears every interrupt the driver enables, whatever
\* was read
irq_ir_acked_all ==
    /\ irq.pc = "acking"
    /\ spi_transfer_unlock("irq")
    /\ LET rec == [irq EXCEPT !.log = Append(@, Ev("wr", IR, RF0N + TFE + BO + EW + EP))]
       IN  IF irq.ir = 0
             THEN /\ irq' = [rec EXCEPT !.pc = "ret", !.ret = "IRQ_NONE"]
                  /\ UNCHANGED << queue_stopped, restart_armed, can_state >>
             ELSE IF HasBit(irq.ir, RF0N)
             THEN /\ irq' = [rec EXCEPT !.pc = "rxf0s"]
                  /\ UNCHANGED << queue_stopped, restart_armed, can_state >>
             ELSE irq_tail(rec)
    /\ UNCHANGED << qvars, work_pending, irq_registered, tx_skb_lock, hwvars, xmit,
                    wk, ctl, histvars, next_skb, used, harnessvars >>

\* spi_write32(IR, ir) returns: nothing observed ends the pass with IRQ_NONE,
\* RF0N leads into tcan4550_recMsgs, anything else into the rest of the handler
irq_ir_acked ==
    /\ irq.pc = "acking"
    /\ spi_transfer_unlock("irq")
    /\ LET rec == [irq EXCEPT !.log = Append(@, Ev("wr", IR, irq.ir))]
       IN  IF irq.ir = 0
             THEN /\ irq' = [rec EXCEPT !.pc = "ret", !.ret = "IRQ_NONE"]
                  /\ UNCHANGED << queue_stopped, restart_armed, can_state >>
             ELSE IF HasBit(irq.ir, RF0N)
             THEN /\ irq' = [rec EXCEPT !.pc = "rxf0s"]
                  /\ UNCHANGED << queue_stopped, restart_armed, can_state >>
             ELSE irq_tail(rec)
    /\ UNCHANGED << qvars, work_pending, irq_registered, tx_skb_lock, hwvars, xmit,
                    wk, ctl, histvars, next_skb, used, harnessvars >>

\* tcan4550_recMsgs: spi_read32(RXF0S) takes the bus
recMsgs_status ==
    /\ irq.pc = "rxf0s"
    /\ spi_transfer_lock("irq")
    /\ irq' = [irq EXCEPT !.pc = "rxf0s_sync"]
    /\ UNCHANGED << qvars, can_state, queue_stopped, work_pending, irq_registered,
                    restart_armed, tx_skb_lock, hwvars, xmit, wk, ctl, histvars,
                    next_skb, used, harnessvars >>

\* a status read that goes on to the burst whatever the fill level is
recMsgs_window_noCheck(Values) ==
    /\ irq.pc = "rxf0s_sync"
    /\ spi_transfer_unlock("irq")
    /\ \E rxf0s \in Values :
         LET win == RxWindow(rxf0s)
         IN  /\ irq' = [irq EXCEPT !.pc = "burst",
                                   !.getIndex = win.getIndex,
                                   !.msgsToGet = win.msgsToGet,
                                   !.baseAddress = win.baseAddress,
                                   !.log = Append(@, Ev("rd", RXF0S, rxf0s))]
             /\ UNCHANGED << queue_stopped, restart_armed, can_state >>
    /\ UNCHANGED << qvars, work_pending, irq_registered, tx_skb_lock, hwvars, xmit,
                    wk, ctl, histvars, next_skb, used, harnessvars >>

\* spi_read32(RXF0S) returns a value of Values, which the record keeps; with
\* fill level 0 recMsgs returns false and the handler goes on, else the burst
\* window is computed
recMsgs_window(Values) ==
    /\ irq.pc = "rxf0s_sync"
    /\ spi_transfer_unlock("irq")
    /\ \E rxf0s \in Values :
         LET win == RxWindow(rxf0s)
             rec == [irq EXCEPT !.log = Append(@, Ev("rd", RXF0S, rxf0s))]
         IN  IF win.fillLevel = 0
             THEN irq_tail(rec)
             ELSE /\ irq' = [rec EXCEPT !.pc = "burst",
                                        !.getIndex = win.getIndex,
                                        !.msgsToGet = win.msgsToGet,
                                        !.baseAddress = win.baseAddress]
                  /\ UNCHANGED << queue_stopped, restart_armed, can_state >>
    /\ UNCHANGED << qvars, work_pending, irq_registered, tx_skb_lock, hwvars, xmit,
                    wk, ctl, histvars, next_skb, used, harnessvars >>

\* spi_read_msgs(baseAddress, msgsToGet, rxBuffer) takes the bus
recMsgs_burst ==
    /\ irq.pc = "burst"
    /\ spi_transfer_lock("irq")
    /\ irq' = [irq EXCEPT !.pc = "burst_sync"]
    /\ UNCHANGED << qvars, can_state, queue_stopped, work_pending, irq_registered,
                    restart_armed, tx_skb_lock, hwvars, xmit, wk, ctl, histvars,
                    next_skb, used, harnessvars >>

\* spi_read_msgs returns, with 0 or with the error of a failed transfer (its
\* result is not looked at): rxBuffer holds msgsToGet messages, each one of
\* Messages; after a failed transfer they are what the receive buffer held
\* before
recMsgs_burst_read(Messages) ==
    /\ irq.pc = "burst_sync"
    /\ spi_transfer_unlock("irq")
    /\ \E m \in Messages, ok \in BOOLEAN :
         irq' = [irq EXCEPT !.pc = "rxf0a",
                            !.rxBuffer = [i \in 1..irq.msgsToGet |-> m],
                            !.readOk = ok,
                            !.log = Append(@, Ev("rd_msgs", irq.baseAddress,
                                                 irq.msgsToGet))]
    /\ UNCHANGED << qvars, can_state, queue_stopped, work_pending, irq_registered,
                    restart_armed, tx_skb_lock, hwvars, xmit, wk, ctl, histvars,
                    next_skb, used, harnessvars >>

\* spi_write32(RXF0A, ...) takes the bus
recMsgs_ack ==
    /\ irq.pc = "rxf0a"
    /\ spi_transfer_lock("irq")
    /\ irq' = [irq EXCEPT !.pc = "rxf0a_sync"]
    /\ UNCHANGED << qvars, can_state, queue_stopped, work_pending, irq_registered,
                    restart_armed, tx_skb_lock, hwvars, xmit, wk, ctl, histvars,
                    next_skb, used, harnessvars >>

\* an acknowledge value that counts the messages read
AckValue_count(getIndex, msgsToGet) == getIndex + msgsToGet

\* the value written to RXF0A: the index of the last message read
AckValue(getIndex, msgsToGet) == getIndex + msgsToGet - 1

\* which of the messages of a burst alloc_can_skb() fails for
AllocFailures == { {}, {1} }

\* spi_write32(RXF0A) returns; every message alloc_can_skb() finds room for is
\* decoded and passed to netif_rx(); recMsgs returns true and the handler goes on
recMsgs_deliver ==
    /\ irq.pc = "rxf0a_sync"
    /\ spi_transfer_unlock("irq")
    /\ \E failed \in AllocFailures :
         LET kept == { i \in 1..irq.msgsToGet : i \notin failed }
             frames == [i \in 1..irq.msgsToGet |->
                           IF i \in kept THEN <<recMsgs_decode(irq.rxBuffer[i])>>
                           ELSE <<>>]
             Cat[i \in 0..irq.msgsToGet] ==
                 IF i = 0 THEN <<>> ELSE Cat[i - 1] \o frames[i]
         IN  irq_tail([irq EXCEPT
                 !.frames = Cat[irq.msgsToGet],
                 !.log = @ \o << Ev("wr", RXF0A,
                                    AckValue(irq.getIndex, irq.msgsToGet)),
                                 Ev("rx", 0, Cardinality(kept)) >>])
    /\ UNCHANGED << qvars, work_pending, irq_registered, tx_skb_lock, hwvars, xmit,
                    wk, ctl, histvars, next_skb, used, harnessvars >>

\* spi_write32(IE, 0) takes the bus
irq_busoff_disable ==
    /\ irq.pc = "ie"
    /\ spi_transfer_lock("irq")
    /\ irq' = [irq EXCEPT !.pc = "ie_sync"]
    /\ UNCHANGED << qvars, can_state, queue_stopped, work_pending, irq_registered,
                    restart_armed, tx_skb_lock, hwvars, xmit, wk, ctl, histvars,
                    next_skb, used, harnessvars >>

\* a bus-off block that leaves the interrupts enabled: it writes the enable
\* mask to IE
irq_busoff_notify_enabled ==
    /\ irq.pc = "ie_sync"
    /\ spi_transfer_unlock("irq")
    /\ queue_stopped' = TRUE
    /\ can_state' = IF HasBit(irq.ir, EP) THEN "ERROR_PASSIVE"
                    ELSE IF HasBit(irq.ir, EW) THEN "ERROR_WARNING"
                    ELSE can_state
    /\ \E skb \in BOOLEAN :
         irq' = [irq EXCEPT !.pc = "ret", !.ret = "IRQ_HANDLED",
                   !.log = @ \o <<Ev("wr", IE, RF0N + TFE + BO + EW + EP)>>
                     \o <<Ev("alloc_can_err_skb", 0, IF skb THEN 1 ELSE 0)>>
                     \o (IF skb THEN <<Ev("err_frame", 0, 0)>> ELSE <<>>)
                     \o <<Ev("stop", 0, 0)>>]
    /\ UNCHANGED << qvars, work_pending, irq_registered, restart_armed, tx_skb_lock,
                    hwvars, xmit, wk, ctl, histvars, next_skb, used, harnessvars >>

\* spi_write32(IE, 0) returns; the error frame is delivered if
\* alloc_can_err_skb() finds room; netif_stop_queue(); then the warning and
\* passive bits are applied and the handler returns
irq_busoff_notify ==
    /\ irq.pc = "ie_sync"
    /\ spi_transfer_unlock("irq")
    /\ queue_stopped' = TRUE
    /\ can_state' = IF HasBit(irq.ir, EP) THEN "ERROR_PASSIVE"
                    ELSE IF HasBit(irq.ir, EW) THEN "ERROR_WARNING"
                    ELSE can_state
    /\ \E ok \in BOOLEAN, skb \in BOOLEAN :
         /\ hw_ie' = IF ok THEN 0 ELSE hw_ie
         /\ irq' = [irq EXCEPT !.pc = "ret", !.ret = "IRQ_HANDLED",
                      !.log = @ \o <<Ev("wr", IE, 0)>>
                        \o <<Ev("alloc_can_err_skb", 0, IF skb THEN 1 ELSE 0)>>
                        \o (IF skb THEN <<Ev("err_frame", 0, 0)>> ELSE <<>>)
                        \o <<Ev("stop", 0, 0)>>
                        \o (IF HasBit(irq.ir, EW)
                            THEN <<Ev("warning", 0, 0)>> ELSE <<>>)
                        \o (IF HasBit(irq.ir, EP)
                            THEN <<Ev("passive", 0, 0)>> ELSE <<>>)]
    /\ UNCHANGED << qvars, work_pending, irq_registered, restart_armed, tx_skb_lock,
                    hw_mode, xmit, wk, ctl, histvars, next_skb, used, harnessvars >>

\* the handler has returned
irq_return ==
    /\ irq.pc = "ret"
    /\ irq' = irqIdle
    /\ UNCHANGED << qvars, can_state, queue_stopped, work_pending, irq_registered,
                    restart_armed, tx_skb_lock, spivars, hwvars, xmit, wk, ctl,
                    histvars, next_skb, used, harnessvars >>

tcan4550_recMsgs(RxValues, Messages) ==
    \/ recMsgs_status
    \/ recMsgs_window(RxValues)
    \/ recMsgs_burst
    \/ recMsgs_burst_read(Messages)
    \/ recMsgs_ack
    \/ recMsgs_deliver

tcan4450_handleInterrupts(limit, IrValues) ==
    \/ irq_begin(limit)
    \/ irq_ir_read(IrValues)
    \/ irq_ir_ack
    \/ irq_ir_acked
    \/ irq_busoff_disable
    \/ irq_busoff_notify
    \/ irq_return


(***************************************************************************)
(* The driver under concurrent use                                         *)
(***************************************************************************)
\* a TXQFS value with the given free level and put index
Txqfs(free, put) == free + (put * 65536)

\* an RXF0S value with the given fill level and get index
Rxf0s(fill, get) == fill + (get * 256)

\* TXQFS values read in a run of Spec: no room, room for one, an empty FIFO
ConcTxqfs == { Txqfs(0, 0), Txqfs(1, 0), Txqfs(32, 0) }

\* RXF0S values read in a run of Spec: nothing waiting, two messages waiting
\* at the last element of the ring
ConcRxf0s == { Rxf0s(0, 0), Rxf0s(2, 31) }

\* IR values read in a run of Spec
ConcIr == { RF0N, TFE, BO, BO + EW }

\* the message found in the RX FIFO in a run of Spec: a standard data frame
ConcMessages ==
    { tcan4550_composeMessage([can_id |-> <<0, 291>>, len |-> 2,
                               data |-> <<17, 34, 0, 0, 0, 0, 0, 0>>]) }

Init ==
    /\ InitDriver
    /\ codec = codecIdle
    /\ xfer = xferOff
    /\ fifo = "off"
    /\ hw_tx = hwtxIdle

Next ==
    \/ tcan_open
    \/ tcan_close
    \/ tcan4550_set_mode
    \/ tcan4550_init
    \/ xmit_drop
    \/ xmit_lock(MaxXmit)
    \/ xmit_store
    \/ tcan4550_tx_work_handler(ConcTxqfs)
    \/ tcan4450_handleInterrupts(MaxIrq, ConcIr)
    \/ tcan4550_recMsgs(ConcRxf0s, ConcMessages)

Spec == Init /\ [][Next]_vars


(***************************************************************************)
(* The staging queue between two resets: the device is opened, then frames *)
(* are submitted and drained; the only interrupt is TX-fifo-empty          *)
(***************************************************************************)
\* TXQFS values read in a run of SpecFill: no room, room for one, room for
\* more than a burst
FillTxqfs == { Txqfs(0, 0), Txqfs(1, 0), Txqfs(32, 0) }

InitFill ==
    /\ Opened
    /\ codec = codecIdle
    /\ xfer = xferOff
    /\ fifo = "off"
    /\ hw_tx = hwtxIdle

NextFill ==
    \/ tcan_start_xmit(MaxFill)
    \/ tcan4550_tx_work_handler(FillTxqfs)
    \/ irq_begin(FillIrq)
    \/ irq_ir_read({TFE})
    \/ irq_ir_ack
    \/ irq_ir_acked
    \/ irq_return

SpecFill == InitFill /\ [][NextFill]_vars


(***************************************************************************)
(* Single passes over every register value: from the opened device, either *)
(* the worker runs against every TXQFS value, or the interrupt thread runs *)
(* an RX pass against every RXF0S value, or it runs against every          *)
(* combination of the IR bits                                              *)
(***************************************************************************)
\* every value of the fields of TXQFS the worker looks at
AllTxqfs == { Txqfs(free, put) : free \in 0..63, put \in 0..31 }

\* every value of the fields of RXF0S tcan4550_recMsgs looks at
AllRxf0s == { Rxf0s(fill, get) : fill \in 0..127, get \in 0..63 }

\* every combination of the IR bits the handler looks at, and a bit it does
\* not look at (TC)
IrBits == << RF0N, TFE, BO, EW, EP >>
IrValue(S) ==
    LET Sum[i \in 0..Len(IrBits)] ==
            IF i = 0 THEN 0
            ELSE Sum[i - 1] + (IF i \in S THEN IrBits[i] ELSE 0)
    IN  Sum[Len(IrBits)]
IrValues == { IrValue(S) : S \in SUBSET (1..Len(IrBits)) } \cup { TC }

\* messages found in the RX FIFO in a run of SpecPass: a standard data frame,
\* an extended frame with all payload bits set, a standard remote frame
RxMessages ==
    ConcMessages \cup
    { tcan4550_composeMessage([can_id |-> <<CAN_EFF_FLAG_HI + 4660, 22136>>,
                               len |-> 8,
                               data |-> <<255, 255, 255, 255, 255, 255, 255, 255>>]),
      tcan4550_composeMessage([can_id |-> <<CAN_RTR_FLAG_HI, 291>>, len |-> 0,
                               data |-> <<0, 0, 0, 0, 0, 0, 0, 0>>]) }

InitPass ==
    /\ Opened
    /\ codec = codecIdle
    /\ xfer = xferOff
    /\ fifo \in {"tx", "rx", "ir"}
    /\ hw_tx = hwtxIdle

NextPass ==
    \/ xmit_lock(IF fifo = "tx" THEN PassXmit ELSE 0)
    \/ xmit_store
    \/ tcan4550_tx_work_handler(AllTxqfs)
    \/ tcan4450_handleInterrupts(IF fifo = "tx" THEN 0 ELSE PassIrq,
                                 IF fifo = "rx" THEN {RF0N} ELSE IrValues)
    \/ tcan4550_recMsgs(IF fifo = "rx" THEN AllRxf0s ELSE ConcRxf0s, RxMessages)

SpecPass == InitPass /\ [][NextPass]_vars

(***************************************************************************)
(* The codec: a frame is converted to a message by the transmit side and   *)
(* the message is converted back by the receive side                       *)
(***************************************************************************)
\* identifiers of the frames converted: standard ones (11 bits) and extended
\* ones (29 bits, CAN_EFF_FLAG set), each with and without CAN_RTR_FLAG
CodecIds ==
    { <<rtr * CAN_RTR_FLAG_HI, id>> : rtr \in {0, 1}, id \in {0, 291, 2047} }
    \cup { <<CAN_EFF_FLAG_HI + (rtr * CAN_RTR_FLAG_HI) + hi, lo>> :
             rtr \in {0, 1}, hi \in {0, 4660, 8191}, lo \in {0, 22136, 65535} }

\* payloads of the frames converted
CodecPayloads ==
    { <<0, 0, 0, 0, 0, 0, 0, 0>>,
      <<255, 255, 255, 255, 255, 255, 255, 255>>,
      <<1, 35, 69, 103, 137, 171, 205, 239>> }

CodecFrames ==
    { [can_id |-> id, len |-> len, data |-> d] :
        id \in CodecIds, len \in 0..8, d \in CodecPayloads }

InitCodec ==
    /\ InitDriver
    /\ fifo = "off"
    /\ hw_tx = hwtxIdle
    /\ xfer = xferOff
    /\ \E f \in CodecFrames :
         codec = [pc |-> "frame", frame |-> f, msg |-> <<>>, out |-> f]

\* tcan4550_composeMessage(skb, buffer)
codec_compose ==
    /\ codec.pc = "frame"
    /\ codec' = [codec EXCEPT !.pc = "msg",
                              !.msg = tcan4550_composeMessage(codec.frame)]
    /\ UNCHANGED << qvars, can_state, queue_stopped, work_pending, irq_registered,
                    restart_armed, tx_skb_lock, spivars, hwvars, xmit, wk, irq,
                    ctl, histvars, next_skb, used, fifo, xfer, hw_tx >>

\* the conversion in the loop of tcan4550_recMsgs
codec_decode ==
    /\ codec.pc = "msg"
    /\ codec' = [codec EXCEPT !.pc = "done", !.out = recMsgs_decode(codec.msg)]
    /\ UNCHANGED << qvars, can_state, queue_stopped, work_pending, irq_registered,
                    restart_armed, tx_skb_lock, spivars, hwvars, xmit, wk, irq,
                    ctl, histvars, next_skb, used, fifo, xfer, hw_tx >>

NextCodec ==
    \/ codec_compose
    \/ codec_decode

SpecCodec == InitCodec /\ [][NextCodec]_vars

(***************************************************************************)
(* The framing of SPI transactions: one call of spi_write32,               *)
(* spi_write_msgs or spi_read_msgs on the buffers of struct tcan4550_priv  *)
(***************************************************************************)
\* how many calls are made in a row, and the largest message count passed
MaxCalls == 2
MaxMsgs == 9

\* errno values: the argument check's and the one spi_sync fails with
EINVAL == 22
EIO == 5

\* the buffers of struct tcan4550_priv as byte offsets from rxBuffer: the
\* members follow each other without padding
OFF_rxBuffer == 0
OFF_txBuffer == OFF_rxBuffer + (MAX_BURST_RX_MESSAGES * 4) * 4
OFF_rx_txBuf == OFF_txBuffer + (MAX_BURST_TX_MESSAGES * 4) * 4
OFF_rx_rxBuf == OFF_rx_txBuf + 4 + (MAX_BURST_RX_MESSAGES * 16)
OFF_tx_txBuf == OFF_rx_rxBuf + 4 + (MAX_BURST_RX_MESSAGES * 16)
OFF_tx_rxBuf == OFF_tx_txBuf + 4 + (MAX_BURST_TX_MESSAGES * 16)
PrivBytes == OFF_tx_rxBuf + 4 + (MAX_BURST_TX_MESSAGES * 16)

\* the zeroed buffers of a newly allocated device
ZeroedPriv == [o \in 0..(PrivBytes - 1) |-> 0]

\* a byte read at offset o: past the last buffer it is whatever lies there
PrivByte(mem, o, outside) == IF o \in DOMAIN mem THEN mem[o] ELSE outside

\* bytes stored at offsets o, o + 1, ...
PrivStore(mem, o, bytes) ==
    [j \in DOMAIN mem |-> IF j >= o /\ j < o + Len(bytes) THEN bytes[j - o + 1]
                          ELSE mem[j]]

\* the bytes at offsets o .. o + n - 1
PrivBytesAt(mem, o, n) == [j \in 1..n |-> mem[o + j - 1]]

\* a uint32_t in memory, from and to its bytes most-significant first
WordOrder(b, le) == IF le THEN << b[4], b[3], b[2], b[1] >> ELSE b

\* the bytes the chip answers a transaction with, by position
Response(j) == ((j * 7) + 129) % 256

\* the bytes spi_sync leaves in the receive buffer at offset o
SyncReceive(mem, o, len, ok) ==
    IF ok THEN PrivStore(mem, o, [j \in 1..len |-> Response(j - 1)]) ELSE mem

xferIdle(le) ==
    [pc |-> "idle", fn |-> "none", address |-> 0, msgs |-> 0, data |-> <<0, 0>>,
     le |-> le, mem |-> ZeroedPriv, wire |-> <<>>, ret |-> 0,
     rxIndex |-> {}, dataIndex |-> {}, calls |-> 0]

\* the words a caller passes to spi_write32, with the registers written
Write32Calls ==
    { << a, w >> : a \in {0, 4124, TXBAR, 65535},
                   w \in { <<0, 0>>, <<4660, 22136>>, <<33023, 128>>, <<65535, 65535>> } }

\* byte j of the words the worker composed into priv->txBuffer before call c
ComposedByte(j, c) == ((j * 11) + 200 + (c * 37)) % 256

\* a caller is about to call spi_write32(spi, address, data)
xfer_call_write32 ==
    /\ xfer.pc = "idle"
    /\ xfer.calls < MaxCalls
    /\ \E c \in Write32Calls :
         xfer' = [xfer EXCEPT !.pc = "call", !.fn = "spi_write32",
                              !.address = c[1], !.data = c[2]]
    /\ UNCHANGED << qvars, can_state, queue_stopped, work_pending, irq_registered,
                    restart_armed, tx_skb_lock, spivars, hwvars, xmit, wk, irq,
                    ctl, histvars, next_skb, used, codec, fifo, hw_tx >>

\* the worker has composed msgs messages into priv->txBuffer and is about to
\* call spi_write_msgs(priv, baseAddress, msgs, priv->txBuffer); a count
\* above the burst size comes with the buffer as it is
xfer_call_write_msgs ==
    /\ xfer.pc = "idle"
    /\ xfer.calls < MaxCalls
    /\ \E n \in 0..MaxMsgs :
         LET words == IF n > MAX_BURST_TX_MESSAGES THEN 0 ELSE n * 4
             bytes == [j \in 1..(words * 4) |->
                         ComposedByte(IF xfer.le THEN (4 * ((j - 1) \div 4)) + 3 - ((j - 1) % 4)
                                      ELSE j - 1, xfer.calls)]
         IN  xfer' = [xfer EXCEPT !.pc = "call", !.fn = "spi_write_msgs",
                                  !.address = MRAM_BASE + TX_FIFO_START_ADDRESS,
                                  !.msgs = n,
                                  !.mem = PrivStore(@, OFF_txBuffer, bytes)]
    /\ UNCHANGED << qvars, can_state, queue_stopped, work_pending, irq_registered,
                    restart_armed, tx_skb_lock, spivars, hwvars, xmit, wk, irq,
                    ctl, histvars, next_skb, used, codec, fifo, hw_tx >>

\* tcan4550_recMsgs is about to call
\* spi_read_msgs(priv, baseAddress, msgsToGet, priv->rxBuffer)
xfer_call_read_msgs ==
    /\ xfer.pc = "idle"
    /\ xfer.calls < MaxCalls
    /\ \E n \in 0..MaxMsgs :
         xfer' = [xfer EXCEPT !.pc = "call", !.fn = "spi_read_msgs",
                              !.address = MRAM_BASE + RX_FIFO_START_ADDRESS,
                              !.msgs = n]
    /\ UNCHANGED << qvars, can_state, queue_stopped, work_pending, irq_registered,
                    restart_armed, tx_skb_lock, spivars, hwvars, xmit, wk, irq,
                    ctl, histvars, next_skb, used, codec, fifo, hw_tx >>

\* a frame with the data word least-significant byte first
Write32Frame_lsbFirst(address, data) ==
    << 97, (address \div 256) % 256, address % 256, 1,
       U32Byte(data, 0), U32Byte(data, 1), U32Byte(data, 2), U32Byte(data, 3) >>

\* the 8 bytes spi_write32 puts into txBuf
Write32Frame(address, data) ==
    << 97, (address \div 256) % 256, address % 256, 1,
       U32Byte(data, 3), U32Byte(data, 2), U32Byte(data, 1), U32Byte(data, 0) >>

\* spi_write32(spi, address, data)
spi_write32 ==
    /\ xfer.pc = "call"
    /\ xfer.fn = "spi_write32"
    /\ \E ok \in BOOLEAN :
         xfer' = [xfer EXCEPT !.pc = "done",
                              !.wire = Append(@, [len |-> 8,
                                                  tx |-> Write32Frame(xfer.address, xfer.data)]),
                              !.ret = IF ok THEN 0 ELSE -EIO]
    /\ UNCHANGED << qvars, can_state, queue_stopped, work_pending, irq_registered,
                    restart_armed, tx_skb_lock, spivars, hwvars, xmit, wk, irq,
                    ctl, histvars, next_skb, used, codec, fifo, hw_tx >>

\* the value of the uint32_t at offset o, as its bytes most-significant first
PrivWord(mem, o, le) == WordOrder(PrivBytesAt(mem, o, 4), le)

\* the copy loop of spi_write_msgs, all msgs*4 iterations: iteration i puts
\* data[i] into tx_txBuf[4 + i*4 .. 7 + i*4], most-significant byte first
\* (the loop loads from txBuffer and stores to tx_txBuf only, so every load
\* sees the memory the loop started with)
spi_write_msgs_loop(mem, msgs, le) ==
    [o \in DOMAIN mem |->
       LET d == o - (OFF_tx_txBuf + 4)
           i == d \div 4
           p == d % 4
       IN  IF d >= 0 /\ i < msgs * 4
             THEN PrivWord(mem, OFF_txBuffer + (i * 4), le)[p + 1]
             ELSE mem[o]]

\* a spi_write_msgs that cuts a message count above the burst size down to
\* it instead of failing
spi_write_msgs_clamped ==
    /\ xfer.pc = "call"
    /\ xfer.fn = "spi_write_msgs"
    /\ \E ok \in BOOLEAN :
         LET msgs == IF xfer.msgs > MAX_BURST_TX_MESSAGES THEN MAX_BURST_TX_MESSAGES
                     ELSE xfer.msgs
             len == 4 + (msgs * 16)
             header == << 97, (xfer.address \div 256) % 256, xfer.address % 256,
                          (msgs * 4) % 256 >>
             filled == spi_write_msgs_loop(PrivStore(xfer.mem, OFF_tx_txBuf, header),
                                           msgs, xfer.le)
         IN  xfer' = [xfer EXCEPT
                        !.pc = "done",
                        !.wire = Append(@, [len |-> len,
                                            tx |-> PrivBytesAt(filled, OFF_tx_txBuf, len)]),
                        !.mem = SyncReceive(filled, OFF_tx_rxBuf, len, ok),
                        !.ret = IF ok THEN 0 ELSE -EIO]
    /\ UNCHANGED << qvars, can_state, queue_stopped, work_pending, irq_registered,
                    restart_armed, tx_skb_lock, spivars, hwvars, xmit, wk, irq,
                    ctl, histvars, next_skb, used, codec, fifo, hw_tx >>

\* spi_write_msgs(priv, address, msgs, data) with data = priv->txBuffer
spi_write_msgs ==
    /\ xfer.pc = "call"
    /\ xfer.fn = "spi_write_msgs"
    /\ IF xfer.msgs > MAX_BURST_TX_MESSAGES
         THEN xfer' = [xfer EXCEPT !.pc = "done", !.ret = -EINVAL]
         ELSE \E ok \in BOOLEAN :
                LET len == 4 + (xfer.msgs * 16)
                    header == << 97, (xfer.address \div 256) % 256, xfer.address % 256,
                                 (xfer.msgs * 4) % 256 >>
                    filled == spi_write_msgs_loop(
                                  PrivStore(xfer.mem, OFF_tx_txBuf, header),
                                  xfer.msgs, xfer.le)
                IN  xfer' = [xfer EXCEPT
                               !.pc = "done",
                               !.wire = Append(@, [len |-> len,
                                                   tx |-> PrivBytesAt(filled, OFF_tx_txBuf, len)]),
                               !.mem = SyncReceive(filled, OFF_tx_rxBuf, len, ok),
                               !.ret = IF ok THEN 0 ELSE -EIO]
    /\ UNCHANGED << qvars, can_state, queue_stopped, work_pending, irq_registered,
                    restart_armed, tx_skb_lock, spivars, hwvars, xmit, wk, irq,
                    ctl, histvars, next_skb, used, codec, fifo, hw_tx >>

\* the decode loop of spi_read_msgs, all msgs*4 iterations: iteration i
\* builds data[k + i*4], k = 0..3, from rx_rxBuf[4 + 4k + i*16 .. 7 + 4k + i*16],
\* most-significant byte first (the stores of iteration i end at byte
\* 16i + 15 of rxBuffer and its loads start at byte 4 + 16i of rx_rxBuf, so
\* no load sees a byte the loop stored)
spi_read_msgs_loop(mem, msgs, le, outside) ==
    [o \in DOMAIN mem |->
       LET d == o - OFF_rxBuffer
           i == d \div 16
           k == (d \div 4) % 4
           p == IF le THEN 3 - (d % 4) ELSE d % 4
       IN  IF d >= 0 /\ i < msgs * 4
             THEN PrivByte(mem, OFF_rx_rxBuf + 4 + (4 * k) + (i * 16) + p, outside)
             ELSE mem[o]]

\* what lies behind the last buffer of the device's private data
OutsideBytes == {0, 255}

\* spi_read_msgs(priv, address, msgs, data) with data = priv->rxBuffer
spi_read_msgs ==
    /\ xfer.pc = "call"
    /\ xfer.fn = "spi_read_msgs"
    /\ IF xfer.msgs > MAX_BURST_RX_MESSAGES
         THEN xfer' = [xfer EXCEPT !.pc = "done", !.ret = -EINVAL]
         ELSE \E ok \in BOOLEAN :
              \E outside \in IF OFF_rx_rxBuf + 4 + (xfer.msgs * 4 * 16) > PrivBytes
                             THEN OutsideBytes ELSE {0} :
                LET len == 4 + (xfer.msgs * 16)
                    header == << 65, (xfer.address \div 256) % 256, xfer.address % 256,
                                 (xfer.msgs * 4) % 256 >>
                    request == PrivStore(xfer.mem, OFF_rx_txBuf, header)
                    received == SyncReceive(request, OFF_rx_rxBuf, len, ok)
                IN  xfer' = [xfer EXCEPT
                               !.pc = "done",
                               !.wire = Append(@, [len |-> len,
                                                   tx |-> PrivBytesAt(request, OFF_rx_txBuf, len)]),
                               !.mem = spi_read_msgs_loop(received, xfer.msgs,
                                                          xfer.le, outside),
                               !.rxIndex = 4..(3 + (xfer.msgs * 4 * 16)),
                               !.dataIndex = 0..((xfer.msgs * 4 * 4) - 1),
                               !.ret = IF ok THEN 0 ELSE -EIO]
    /\ UNCHANGED << qvars, can_state, queue_stopped, work_pending, irq_registered,
                    restart_armed, tx_skb_lock, spivars, hwvars, xmit, wk, irq,
                    ctl, histvars, next_skb, used, codec, fifo, hw_tx >>

\* the call returns to its caller
xfer_return ==
    /\ xfer.pc = "done"
    /\ xfer' = [xferIdle(xfer.le) EXCEPT !.mem = xfer.mem, !.calls = xfer.calls + 1]
    /\ UNCHANGED << qvars, can_state, queue_stopped, work_pending, irq_registered,
                    restart_armed, tx_skb_lock, spivars, hwvars, xmit, wk, irq,
                    ctl, histvars, next_skb, used, codec, fifo, hw_tx >>

InitXfer ==
    /\ InitDriver
    /\ codec = codecIdle
    /\ fifo = "off"
    /\ hw_tx = hwtxIdle
    /\ \E le \in BOOLEAN : xfer = xferIdle(le)

NextXfer ==
    \/ xfer_call_write32
    \/ xfer_call_write_msgs
    \/ xfer_call_read_msgs
    \/ spi_write32
    \/ spi_write_msgs
    \/ spi_read_msgs
    \/ xfer_return

SpecXfer == InitXfer /\ [][NextXfer]_vars

(***************************************************************************)
(* The bit timing: the limits the driver registers with the CAN core, and  *)
(* the register word tcan_open and tcan4550_set_mode pack from the timing  *)
(* the core has accepted                                                   *)
(***************************************************************************)
\* tcan4550_bittiming_const
tseg1_min == 1
tseg1_max == 255
tseg2_min == 1
tseg2_max == 127
sjw_max == 127
brp_min == 1
brp_max == 511

\* the largest prescaler requested
MaxBrp == 513

\* the timings requested from user space; all but the prescaler are inside
\* the limits
BitTimings ==
    { [brp |-> brp, prop_seg |-> ps, phase_seg1 |-> p1, phase_seg2 |-> p2, sjw |-> sjw] :
        brp \in 0..MaxBrp, ps \in {1, 100}, p1 \in {1, 155}, p2 \in {1, 127},
        sjw \in {1, 127} }

\* the CAN core's check of a requested timing against the limits of
\* priv->can.bittiming_const
InsideBittimingConst(bt) ==
    /\ bt.prop_seg + bt.phase_seg1 >= tseg1_min
    /\ bt.prop_seg + bt.phase_seg1 <= tseg1_max
    /\ bt.phase_seg2 >= tseg2_min
    /\ bt.phase_seg2 <= tseg2_max
    /\ bt.sjw <= sjw_max
    /\ bt.brp >= brp_min
    /\ bt.brp <= brp_max

\* user space sets the bit timing of the closed interface: the core stores
\* it in priv->can.bittiming when it is inside the limits and fails with
\* -EINVAL otherwise
can_set_bittiming ==
    /\ xfer.pc = "down"
    /\ \E bt \in BitTimings :
         xfer' = IF InsideBittimingConst(bt)
                   THEN [xfer EXCEPT !.pc = "set", !.req = bt, !.bt = bt, !.ret = 0]
                   ELSE [xfer EXCEPT !.pc = "rejected", !.req = bt, !.ret = -EINVAL]
    /\ UNCHANGED << qvars, can_state, queue_stopped, work_pending, irq_registered,
                    restart_armed, tx_skb_lock, spivars, hwvars, xmit, wk, irq,
                    ctl, histvars, next_skb, used, codec, fifo, hw_tx >>

\* bitRateReg as tcan_open and tcan4550_set_mode compute it
bitRateReg(bt) ==
    U32Add(U32Add(U32(bt.phase_seg2 - 1),
                  U32Shl(bt.prop_seg + bt.phase_seg1 - 1, 8)),
           U32Add(U32Shl(bt.brp - 1, 16), U32Shl(bt.sjw - 1, 25)))

\* tcan_open with a timing set: tcan4550_init hands bitRateReg to
\* tcan4550_setBitRate, which calls spi_write32(spi, NBTP, bitRateReg)
tcan4550_setBitRate ==
    /\ xfer.pc = "set"
    /\ xfer' = [xfer EXCEPT !.pc = "call", !.fn = "spi_write32", !.address = NBTP,
                            !.data = bitRateReg(xfer.bt)]
    /\ UNCHANGED << qvars, can_state, queue_stopped, work_pending, irq_registered,
                    restart_armed, tx_skb_lock, spivars, hwvars, xmit, wk, irq,
                    ctl, histvars, next_skb, used, codec, fifo, hw_tx >>

\* the write of NBTP has returned
setBitRate_return ==
    /\ xfer.pc = "done"
    /\ xfer' = [xfer EXCEPT !.pc = "up"]
    /\ UNCHANGED << qvars, can_state, queue_stopped, work_pending, irq_registered,
                    restart_armed, tx_skb_lock, spivars, hwvars, xmit, wk, irq,
                    ctl, histvars, next_skb, used, codec, fifo, hw_tx >>

\* no timing set yet: priv->can.bittiming is zeroed
bittimingUnset ==
    [brp |-> 0, prop_seg |-> 0, phase_seg1 |-> 0, phase_seg2 |-> 0, sjw |-> 0]

InitTiming ==
    /\ InitDriver
    /\ codec = codecIdle
    /\ fifo = "off"
    /\ hw_tx = hwtxIdle
    /\ xfer = [pc |-> "down", fn |-> "none", address |-> 0, data |-> <<0, 0>>,
               wire |-> <<>>, ret |-> 0, req |-> bittimingUnset, bt |-> bittimingUnset]

NextTiming ==
    \/ can_set_bittiming
    \/ tcan4550_setBitRate
    \/ spi_write32
    \/ setBitRate_return

SpecTiming == InitTiming /\ [][NextTiming]_vars

(***************************************************************************)
(* The transmit path with the chip's side of it: the TX FIFO takes the     *)
(* frames the worker requests, sends them one by one and raises            *)
(* TX-fifo-empty when the last one is out; the interrupt thread runs while *)
(* that interrupt is pending                                               *)
(***************************************************************************)
\* how many frames the network stack submits
LiveXmit == 17

\* frames written to the TX FIFO whose request in TXBAR has arrived
Requested ==
    Len(sent) - (IF wk.pc \in {"writing", "request", "requesting"}
                   THEN Len(wk.burst) ELSE 0)

\* writes of IR that have arrived: one for each pass that got that far
IrAcks == used.irq - (IF irq.pc \in {"ir", "ack", "acking"} THEN 1 ELSE 0)

\* TX-fifo-empty was raised and no write of IR has cleared it since
TfePending == hw_tx.raised /\ hw_tx.raisedAt = IrAcks

\* what TXQFS reads: the free level and the put index of the TX FIFO
HwTxqfs ==
    { Txqfs(TX_MSG_BOXES - (Requested - hw_tx.done), Requested % TX_MSG_BOXES) }

\* the chip sends the oldest requested frame; TX-fifo-empty is raised when
\* it was the last one
hw_transmit ==
    /\ hw_tx.done < Requested
    /\ hw_tx' = IF hw_tx.done + 1 = Requested
                  THEN [done |-> hw_tx.done + 1, raised |-> TRUE, raisedAt |-> IrAcks]
                  ELSE [hw_tx EXCEPT !.done = @ + 1]
    /\ UNCHANGED << qvars, can_state, queue_stopped, work_pending, irq_registered,
                    restart_armed, tx_skb_lock, spivars, hwvars, xmit, wk, irq,
                    ctl, histvars, next_skb, used, codec, fifo, xfer >>

\* the interrupt line is asserted and the irq thread starts a pass
irq_begin_pending ==
    /\ TfePending
    /\ irq_begin(LiveXmit + 1)

\* the steps of a pass of the interrupt thread
irq_pass ==
    \/ irq_begin_pending
    \/ irq_ir_read({TFE})
    \/ irq_ir_ack
    \/ irq_ir_acked
    \/ irq_return

\* how many frames are staged when the run begins: one less than fill the
\* queue
Backlog == TX_BUFFER_SIZE - 5

\* the state after tcan_open and Backlog accepted submissions that the worker,
\* queued by them, has not begun to serve
Backlogged ==
    /\ tx_head = Backlog
    /\ tx_tail = 0
    /\ tx_skb_buf = [i \in 0..(TX_BUFFER_SIZE - 1) |-> IF i < Backlog THEN i + 1 ELSE 0]
    /\ can_state = "ERROR_ACTIVE"
    /\ queue_stopped = FALSE
    /\ work_pending = TRUE
    /\ irq_registered = TRUE
    /\ restart_armed = FALSE
    /\ tx_skb_lock = "free"
    /\ spi_lock = "free"
    /\ in_sync = {}
    /\ hw_ie = RF0N + TFE + BO + EW + EP
    /\ hw_mode = MODESEL_2
    /\ xmit = [xmitIdle EXCEPT !.ret = "OK"]
    /\ wk = wkIdle
    /\ irq = irqIdle
    /\ ctl = [pc |-> "up", op |-> "none", i |-> 0, val |-> 0]
    /\ accepted = [i \in 1..Backlog |-> i]
    /\ sent = <<>>
    /\ staged = [i \in 1..Backlog |-> i]
    /\ next_skb = Backlog + 1
    /\ used = [irq |-> 0, restart |-> 0, open |-> 1]

InitLive ==
    /\ Backlogged
    /\ codec = codecIdle
    /\ xfer = xferOff
    /\ fifo = "off"
    /\ hw_tx = hwtxIdle

\* the steps of a pass of the worker in which no transfer fails
tx_work_pass ==
    /\ tcan4550_tx_work_handler(HwTxqfs)
    /\ wk'.writeOk

NextLive ==
    \/ xmit_lock(LiveXmit)
    \/ xmit_busy
    \/ xmit_store
    \/ tx_work_pass
    \/ irq_pass
    \/ hw_transmit

\* the worker, the interrupt thread and the chip keep running, and a
\* submission that has begun returns; nothing makes the stack submit
SpecLive ==
    /\ InitLive
    /\ [][NextLive]_vars
    /\ WF_vars(xmit_busy \/ xmit_store)
    /\ WF_vars(tx_work_pass)
    /\ WF_vars(irq_pass)
    /\ WF_vars(hw_transmit)

(***************************************************************************)
(* Properties of the staging queue                                         *)
(***************************************************************************)
\* C1: a submission is accepted exactly when fewer than 16 frames are staged
\* and is answered busy exactly when 16 are: from the empty queue 16 frames
\* go in, the 17th is refused, and once the worker has taken one out one
\* more goes in
C1_QueueCapacity ==
    [][ (xmit.pc = "locked" /\ xmit'.pc = "idle")
        => /\ xmit'.ret \in {"OK", "BUSY"}
           /\ (xmit'.ret = "OK") <=> (Len(staged) < 16)
           /\ (xmit'.ret = "BUSY") <=> (Len(staged) = 16)
           /\ (xmit'.ret = "OK") <=> (Len(staged') = Len(staged) + 1) ]_vars

\* 16 frames went in, the 17th was refused, the worker took one, the 17th
\* went in and the 18th is refused
C1_Witness ==
    /\ xmit.ret = "BUSY"
    /\ Len(accepted) = 17
    /\ Len(staged) = 16
    /\ Len(sent) = 1


\* the frames a worker pass has taken out of the queue and not yet handed to
\* spi_write_msgs
InHand == IF wk.pc \in {"loop", "write"} THEN wk.burst ELSE <<>>

\* C2: between two resets, under any interleaving of submissions and worker
\* passes, the frames handed to the hardware TX FIFO are a prefix of the
\* frames accepted, in acceptance order: the frames handed over, then those in
\* the worker's hands, then those still staged, are the accepted frames
C2_FifoOrder ==
    /\ Len(sent) <= Len(accepted)
    /\ sent = SubSeq(accepted, 1, Len(sent))
    /\ sent \o InHand \o staged = accepted

\* 17 frames were handed over in more than one pass while an 18th was staged:
\* the ring has wrapped
C2_Witness ==
    /\ Len(sent) = 17
    /\ Len(accepted) = 18
    /\ tx_tail = 0
    /\ tx_head = 1

\* C5: a step of tcan_start_xmit, on its accept and on its busy outcome,
\* leaves the SPI mutex, the transactions in flight and the chip alone: it
\* changes only the queue's head and slots, the queue-stopped flag, the
\* worker's scheduling and the spinlock
C5_XmitNoBus ==
    [][ (xmit' # xmit)
        => UNCHANGED << spi_lock, in_sync, hw_ie, hw_mode, can_state, tx_tail,
                        irq_registered, restart_armed, wk, irq, ctl, sent >> ]_vars

\* a submission was refused while the worker was on the bus, after others
\* were accepted
C5_Witness ==
    /\ xmit.ret = "BUSY"
    /\ queue_stopped
    /\ spi_lock = "worker"
    /\ Len(accepted) >= 16


\* C3 as stated: in every reachable state tx_head and tx_tail are in 0..16
\* and the number of staged frames is (tx_head - tx_tail) mod 17, so the queue
\* is empty exactly when the two are equal
C3_Original ==
    /\ tx_head \in 0..16
    /\ tx_tail \in 0..16
    /\ Len(staged) = (tx_head - tx_tail) % 17
    /\ (staged = <<>>) <=> (tx_head = tx_tail)

(***************************************************************************)
(* Properties of the SPI access layer                                      *)
(***************************************************************************)
\* C4: at most one execution context is between the start and the end of
\* spi_sync at any time
C4_OneTransaction == Cardinality(in_sync) <= 1

\* the interrupt thread is in a transaction while the worker and the control
\* path both wait for the bus
C4_Witness ==
    /\ in_sync = {"irq"}
    /\ wk.pc = "write"
    /\ ctl.pc = "spi"

(***************************************************************************)
(* Properties of single passes                                             *)
(***************************************************************************)
\* C6 as stated: for every TXQFS value the TX burst stays inside the 32
\* elements, and for every RXF0S value with a non-zero fill level the RX burst
\* does
C6_Original ==
    /\ (wk.pc \in {"lock", "loop"})
         => (wk.writeIndex + (wk.msgsToTransmit - wk.msgs) <= 32)
    /\ (irq.pc = "burst") => (irq.getIndex + irq.msgsToGet <= 32)

\* C7: a pass of tcan4550_recMsgs that read a burst of k >= 1 messages
\* starting at read index r has written RXF0A exactly once, after the burst
\* read, and the value written is r + k - 1
C7_AckValue ==
    (irq.pc = "ret") =>
        \A i \in 1..Len(irq.log) :
            (irq.log[i].op = "rd_msgs" /\ irq.log[i].val >= 1) =>
                LET r == (irq.log[i].reg - (MRAM_BASE + RX_FIFO_START_ADDRESS))
                            \div RX_SLOT_SIZE
                    k == irq.log[i].val
                    acks == { j \in 1..Len(irq.log) :
                                irq.log[j].op = "wr" /\ irq.log[j].reg = RXF0A }
                IN  /\ Cardinality(acks) = 1
                    /\ \A j \in acks : j > i /\ irq.log[j].val = r + k - 1

\* the pass read 5 messages from read index 10 and acknowledged 14
C7_Witness ==
    /\ irq.pc = "ret"
    /\ \E i, j \in 1..Len(irq.log) :
         /\ irq.log[i] = Ev("rd_msgs", MRAM_BASE + RX_FIFO_START_ADDRESS + 160, 5)
         /\ irq.log[j] = Ev("wr", RXF0A, 14)

C10_Original ==
    [][ (can_state = "BUS_OFF" /\ can_state' # "BUS_OFF") => (ctl' # ctl) ]_vars


(***************************************************************************)
(* Properties of the codec                                                 *)
(***************************************************************************)
\* C8 as stated: converting a frame to a message and back recovers the
\* identifier, the extended flag, the remote-request flag, the length and the
\* first `length` payload bytes
C8_Original ==
    (codec.pc = "done") =>
        /\ codec.out.can_id = codec.frame.can_id
        /\ codec.out.len = codec.frame.len
        /\ \A i \in 1..codec.frame.len : codec.out.data[i] = codec.frame.data[i]

(***************************************************************************)
(* Properties of the interrupt handler                                     *)
(***************************************************************************)
\* C11 as stated: the step of an interrupt pass that handles the
\* TX-fifo-empty bit wakes the upstream queue and queues the transmit worker
C11_Original ==
    [][ ((\A i \in 1..Len(irq.log) : irq.log[i].op # "wake")
         /\ (\E i \in 1..Len(irq'.log) : irq'.log[i].op = "wake"))
        => (~queue_stopped' /\ work_pending') ]_vars

\* C12: a pass reads IR once and writes IR once, with the value it read,
\* before anything else; a pass that read 0 returns IRQ_NONE having done
\* nothing else (no RX drain, no queue wake or stop, no bus-state change), any
\* other pass returns IRQ_HANDLED
C12_AckWhatWasRead ==
    /\ []((irq.pc = "ret") =>
            LET irEvents == { i \in 1..Len(irq.log) : irq.log[i].reg = IR }
            IN  /\ irEvents = {1, 2}
                /\ irq.log[1] = Ev("rd", IR, irq.ir)
                /\ irq.log[2] = Ev("wr", IR, irq.ir)
                /\ (irq.ir = 0) => (irq.ret = "IRQ_NONE" /\ Len(irq.log) = 2
                                    /\ irq.frames = <<>>)
                /\ (irq.ir # 0) => (irq.ret = "IRQ_HANDLED"))
    /\ [][ (irq' # irq /\ irq'.ir = 0)
           => UNCHANGED << queue_stopped, can_state, restart_armed, work_pending,
                           hw_ie, tx_head, tx_tail >> ]_vars

\* a pass that read 0 is about to return
C12_Witness ==
    /\ irq.pc = "ret"
    /\ irq.ret = "IRQ_NONE"
    /\ irq.log = << Ev("rd", IR, 0), Ev("wr", IR, 0) >>

(***************************************************************************)
(* Properties of the SPI helpers                                           *)
(***************************************************************************)
\* C13: a call of spi_read_msgs or spi_write_msgs with a message count above
\* 8 returns -EINVAL, starts no SPI transfer and leaves every buffer of the
\* device (the byte buffers and the caller's words) as it was
C13_CountCheck ==
    [][ (/\ xfer.pc = "call"
         /\ xfer'.pc = "done"
         /\ xfer.fn \in {"spi_read_msgs", "spi_write_msgs"}
         /\ xfer.msgs > 8)
        => (/\ xfer'.ret = -EINVAL
            /\ xfer'.wire = <<>>
            /\ xfer'.mem = xfer.mem) ]_vars

\* spi_read_msgs was called with 9 messages on buffers an earlier call has
\* filled, and has returned
C13_Witness ==
    /\ xfer.pc = "done"
    /\ xfer.fn = "spi_read_msgs"
    /\ xfer.msgs = 9
    /\ xfer.ret = -EINVAL
    /\ xfer.wire = <<>>
    /\ xfer.calls = 1
    /\ xfer.mem # ZeroedPriv

\* C14 as stated: a requested prescaler of 0 or 513 is refused with -EINVAL
\* and nothing is written, and a prescaler of 1 or 512 is accepted
C14_Original ==
    (xfer.pc \in {"set", "rejected"}) =>
        /\ (xfer.req.brp \in {0, 513}) =>
             (xfer.pc = "rejected" /\ xfer.ret = -EINVAL /\ xfer.wire = <<>>)
        /\ (xfer.req.brp \in {1, 512}) => (xfer.pc = "set")

\* C15: spi_write32(a, w) starts one transfer of exactly the 8 bytes 0x61,
\* a >> 8, a & 0xFF, 0x01 and the four bytes of w from bits 31..24 down to
\* bits 7..0; writing 0x12345678 to 0x101C sends 61 10 1C 01 12 34 56 78
C15_Write32Bytes ==
    (xfer.pc = "done" /\ xfer.fn = "spi_write32") =>
        /\ Len(xfer.wire) = 1
        /\ xfer.wire[1].len = 8
        /\ xfer.wire[1].tx = << 97, xfer.address \div 256, xfer.address % 256, 1,
                                xfer.data[1] \div 256, xfer.data[1] % 256,
                                xfer.data[2] \div 256, xfer.data[2] % 256 >>
        /\ (xfer.address = 4124 /\ xfer.data = <<4660, 22136>>)
             => xfer.wire[1].tx = << 97, 16, 28, 1, 18, 52, 86, 120 >>

\* 0x12345678 was written to 0x101C
C15_Witness ==
    /\ xfer.pc = "done"
    /\ xfer.fn = "spi_write32"
    /\ xfer.address = 4124
    /\ xfer.data = <<4660, 22136>>
    /\ xfer.wire = << [len |-> 8, tx |-> << 97, 16, 28, 1, 18, 52, 86, 120 >>] >>

(***************************************************************************)
(* Progress of the transmit path                                           *)
(***************************************************************************)
\* C16 as stated: with the worker, the interrupt thread and the chip running
\* and no bus-off, close, restart or failed transfer, every accepted frame is
\* eventually written to the TX FIFO and requested in TXBAR, also when
\* nothing more is submitted
C16_Original ==
    \A k \in 1..LiveXmit : (Len(accepted) >= k) ~> (Requested >= k)

\* C17: a submission that finds 16 frames staged stops the queue, queues the
\* worker, returns NETDEV_TX_BUSY and leaves tx_head, tx_tail and the slots
\* alone; and a stopped queue is eventually woken
C17_BusyThenWoken ==
    /\ [][ (xmit.pc = "locked" /\ xmit'.pc = "idle"
            /\ Len(staged) = TX_BUFFER_SIZE - 1)
           => (/\ xmit'.ret = "BUSY"
               /\ queue_stopped'
               /\ work_pending'
               /\ UNCHANGED << tx_head, tx_tail, tx_skb_buf >>) ]_vars
    /\ (queue_stopped ~> ~queue_stopped)

\* the last submission was answered busy, and an interrupt pass has since
\* woken the queue
C17_Witness ==
    /\ xmit.pc = "idle"
    /\ xmit.ret = "BUSY"
    /\ ~queue_stopped
    /\ irq.pc = "ret"
    /\ \E i \in 1..Len(irq.log) : irq.log[i].op = "wake"

(***************************************************************************)
(* Failed burst transfers                                                  *)
(***************************************************************************)
\* C18 as stated: a pass whose RX burst read failed writes nothing to RXF0A
\* and delivers no frame
C18_Original ==
    (irq.pc = "ret" /\ ~irq.readOk) =>
        /\ \A i \in 1..Len(irq.log) : ~(irq.log[i].op = "wr" /\ irq.log[i].reg = RXF0A)
        /\ irq.frames = <<>>

\* C19 as stated: after a failed TX burst write the frames of the burst are
\* still staged in the software queue and TXBAR is not written
C19_Original ==
    (wk.pc \in {"request", "requesting"} /\ ~wk.writeOk) =>
        /\ wk.pc # "requesting"
        /\ \A i \in 1..Len(wk.burst) :
             \E j \in 1..Len(staged) : staged[j] = wk.burst[i]

(***************************************************************************)
(* Locking of the ring indices                                             *)
(***************************************************************************)
\* C20 as stated: whichever context changes tx_head or tx_tail (submission,
\* worker, open, restart) holds tx_skb_lock while it does
C20_Original ==
    [][ (tx_head' # tx_head \/ tx_tail' # tx_tail)
        => (tx_skb_lock = (IF xmit' # xmit THEN "xmit"
                           ELSE IF wk' # wk THEN "worker"
                           ELSE "ctl")) ]_vars

(***************************************************************************)
(* Bus-off and restart                                                     *)
(***************************************************************************)
\* C21 as stated: a pass that read the bus-off bit ends with the queue
\* stopped; from then until a restart begins no submission is accepted; and
\* a restart that completes leaves tx_head = tx_tail = 0, the state
\* ERROR_ACTIVE, IE set to the driver's mask, the chip in normal mode and the
\* queue started
C21_Original ==
    /\ []((irq.pc = "ret" /\ HasBit(irq.ir, BO)) => queue_stopped)
    /\ [][ (restart_armed /\ irq.pc = "idle" /\ xmit.pc = "locked")
           => (accepted' = accepted) ]_vars
    /\ [][ (ctl.op = "restart" /\ ctl.pc = "start_queue" /\ ctl'.pc = "up")
           => (/\ tx_head' = 0
               /\ tx_tail' = 0
               /\ can_state' = "ERROR_ACTIVE"
               /\ hw_ie' = RF0N + TFE + BO + EW + EP
               /\ hw_mode' = MODESEL_2
               /\ ~queue_stopped') ]_vars

(***************************************************************************)
(* An RX pass that finds the FIFO empty                                    *)
(***************************************************************************)
\* C22: once tcan4550_recMsgs has read an RXF0S value whose fill level
\* (bits 0..6) is 0, the pass never reaches the burst read or the RXF0A
\* write: RXF0S was read once, and the record holds no burst read, no write
\* to RXF0A and no delivery or statistics update, and no frame was handed on
C22_EmptyFifo ==
    LET emptyRead == \E i \in 1..Len(irq.log) :
                        /\ irq.log[i].op = "rd"
                        /\ irq.log[i].reg = RXF0S
                        /\ irq.log[i].val % 128 = 0
    IN  emptyRead
        => /\ irq.pc \notin {"burst", "burst_sync", "rxf0a", "rxf0a_sync"}
           /\ \A i \in 1..Len(irq.log) :
                /\ irq.log[i].op \notin {"rd_msgs", "rx"}
                /\ ~(irq.log[i].op = "wr" /\ irq.log[i].reg = RXF0A)
           /\ Cardinality({ i \in 1..Len(irq.log) : irq.log[i].reg = RXF0S }) = 1
           /\ irq.frames = <<>>

\* a pass has returned after reading an empty RX FIFO whose get index is 5
C22_Witness ==
    /\ fifo = "rx"
    /\ irq.pc = "ret"
    /\ irq.log = << Ev("rd", IR, RF0N), Ev("wr", IR, RF0N),
                    Ev("rd", RXF0S, Rxf0s(0, 5)) >>

(***************************************************************************)
(* Several interrupt bits in one pass                                      *)
(***************************************************************************)
\* C23: a pass that has returned IRQ_HANDLED read IR once and did, for the
\* value it read, exactly the steps of the bits set in it, in the order RX
\* drain (the call of tcan4550_recMsgs, seen as its read of RXF0S), queue wake
\* for TFE, bus-off, error-warning, error-passive: none skipped, none added;
\* the queue and the bus state are what the steps leave in that order (the
\* stop of bus-off after the wake of TFE, the state of the last bit set)
C23_EveryBitInOrder ==
    LET Step(e) == \/ (e.op = "rd" /\ e.reg = RXF0S)
                   \/ e.op \in {"wake", "bus_off", "warning", "passive"}
        steps == SelectSeq(irq.log, Step)
        For(bit, op) == IF HasBit(irq.ir, bit) THEN <<op>> ELSE <<>>
    IN  (irq.pc = "ret" /\ irq.ret = "IRQ_HANDLED")
        => /\ [i \in 1..Len(steps) |-> steps[i].op]
                = For(RF0N, "rd") \o For(TFE, "wake") \o For(BO, "bus_off")
                    \o For(EW, "warning") \o For(EP, "passive")
           /\ Cardinality({ i \in 1..Len(irq.log) :
                              irq.log[i].op = "rd" /\ irq.log[i].reg = IR }) = 1
           /\ HasBit(irq.ir, BO) => queue_stopped
           /\ (HasBit(irq.ir, TFE) /\ ~HasBit(irq.ir, BO)) => ~queue_stopped
           /\ HasBit(irq.ir, EP) => can_state = "ERROR_PASSIVE"
           /\ (HasBit(irq.ir, EW) /\ ~HasBit(irq.ir, EP))
                => can_state = "ERROR_WARNING"
           /\ (HasBit(irq.ir, BO) /\ ~HasBit(irq.ir, EW) /\ ~HasBit(irq.ir, EP))
                => can_state = "BUS_OFF"

\* a pass that read all five bits at once has returned, and a message was
\* drained on its way
C23_Witness ==
    /\ fifo = "ir"
    /\ irq.pc = "ret"
    /\ irq.ir = RF0N + TFE + BO + EW + EP
    /\ Len(irq.frames) = 1
    /\ \E i \in 1..Len(irq.log) : irq.log[i].op = "passive"

(***************************************************************************)
(* The decode loop of spi_read_msgs                                        *)
(***************************************************************************)
\* C24 as stated: a call of spi_read_msgs for n = 1..8 messages reads exactly
\* the bytes 4 .. 4 + 16n - 1 of rx_rxBuf and writes exactly the words
\* 0 .. 4n - 1 of the destination, all of them inside rx_rxBuf (4 + 8*16
\* bytes) and rxBuffer (8*4 words), and after a transfer that succeeded word k
\* is the big-endian value of the response bytes 4 + 4k .. 7 + 4k
C24_Original ==
    (xfer.pc = "done" /\ xfer.fn = "spi_read_msgs" /\ xfer.msgs \in 1..8)
    => /\ xfer.rxIndex = 4..(4 + (16 * xfer.msgs) - 1)
       /\ xfer.dataIndex = 0..((4 * xfer.msgs) - 1)
       /\ xfer.rxIndex \subseteq 0..(4 + (MAX_BURST_RX_MESSAGES * 16) - 1)
       /\ xfer.dataIndex \subseteq 0..((MAX_BURST_RX_MESSAGES * 4) - 1)
       /\ (xfer.ret = 0) =>
            \A k \in 0..((4 * xfer.msgs) - 1) :
               PrivWord(xfer.mem, OFF_rxBuffer + (4 * k), xfer.le)
                 = [p \in 1..4 |-> Response(4 + (4 * k) + p - 1)]

(***************************************************************************)
(* The slots and the request mask of a worker pass                         *)
(***************************************************************************)
\* C25: a worker pass issues the burst write and the TXBAR write only after
\* it removed m >= 1 frames; with w the write index it read from TXQFS
\* (writeIndex has been incremented m times since), the burst holds m
\* messages and starts at 0x8000 + 16*w, so it fills the slots w .. w+m-1,
\* these are slots of the FIFO, and requestMask has exactly the bits
\* w .. w+m-1; tx_tail moves only when a frame is removed, and a pass that
\* leaves the loop with no frame removed ends there, with no transfer
C25_SlotsAndMask ==
    /\ [](wk.pc \in {"write", "writing", "request", "requesting"}
          => LET m == wk.msgs
                 w == wk.writeIndex - m
             IN  /\ m >= 1
                 /\ w >= 0
                 /\ w + m <= TX_MSG_BOXES
                 /\ Len(wk.burst) = m
                 /\ wk.baseAddress = 32768 + (16 * w)
                 /\ \A k \in 0..31 :
                      U32Bit(wk.requestMask, k)
                        = IF k \in w..(w + m - 1) THEN 1 ELSE 0)
    /\ [][ /\ (tx_tail' # tx_tail) => (wk.pc = "loop" /\ wk'.msgs = wk.msgs + 1)
           /\ (wk.pc = "loop" /\ wk'.pc # "loop" /\ wk.msgs = 0)
                => (wk' = wkIdle /\ sent' = sent /\ in_sync' = in_sync) ]_vars

\* a pass that read write index 30 and room for eight has removed two frames
\* and is about to write TXBAR with bits 30 and 31
C25_Witness ==
    /\ fifo = "tx"
    /\ wk.pc = "request"
    /\ wk.msgs = 2
    /\ wk.baseAddress = 32768 + (16 * 30)
    /\ wk.requestMask = << 49152, 0 >>

(***************************************************************************)
(* The worker after close and after bus-off                                *)
(***************************************************************************)
\* C26 as stated: while the interface is closed (tcan_close has set the state
\* STOPPED and no tcan_open has begun), and while a handled bus-off waits for
\* its restart (the pass that saw BO has returned and tcan4550_set_mode has
\* not begun), no worker pass starts a burst write to the TX FIFO or a write
\* of TXBAR
C26_Original ==
    [][ (\/ (can_state = "STOPPED" /\ ctl.op # "open")
         \/ (restart_armed /\ irq.pc = "idle" /\ ctl.pc = "up"))
        => ~(\/ (wk.pc = "write" /\ wk'.pc = "writing")
             \/ (wk.pc = "request" /\ wk'.pc = "requesting")) ]_vars

====
